---------------------------- MODULE Spec2Model ----------------------------
(***************************************************************************)
(* Finite-automaton tools of the TAiFA labs:                               *)
(*   lab1.py       Mealy <-> Moore conversion                              *)
(*   lab2.py       minimization of Mealy / Moore automata                  *)
(*   lab4pc.py     NFA -> DFA (subset construction with epsilon moves)     *)
(*   lab5.py       regular expression -> NFA -> DFA                        *)
(*   checkmoore.py isomorphism check of two Moore automata                 *)
(* Every tool is a pipeline of pure functions; each specification below    *)
(* draws the tool's input in its Init and applies the functions step by    *)
(* step.  State names "s0", "s1", ... / "S0", "S1", ... / "q0", "q1", ...  *)
(* generated by the code are represented by their index.                   *)
(***************************************************************************)
EXTENDS Integers, Sequences, FiniteSets, TLC

VARIABLES
    pc,            \* position of the running tool
    \* ---- lab2.py
    autom_type,    \* "mealy" or "moore" (argument autom_type of main)
    states,        \* list of state names (Q for Moore, states for Mealy)
    state_output,  \* Moore: state -> output
    delta,         \* Moore: state -> list of destinations, one per input
    transitions,   \* Mealy: state -> list of <<dest, out>>, one per input
    P,             \* current partition: list of groups (lists of states)
    changed,       \* loop flag of the refinement loop
    passes,        \* number of passes of the refinement loop made so far
    minimized,     \* the tuple returned by minimize_moore / minimize_mealy
    previous,      \* the result of the preceding minimization, if any
    \* ---- checkmoore.py
    auto1,         \* first automaton (read_moore_automaton)
    auto2,         \* second automaton
    mapping,       \* states of auto1 -> states of auto2
    queue,         \* pairs still to visit
    all_inputs,    \* auto1["inputs"] | auto2["inputs"], in iteration order
    equivalent,    \* value returned by are_moore_automata_equivalent
    scenario,      \* how auto2 was obtained from auto1
    \* ---- lab4pc.py
    nfa,           \* the NFA read by read_nfa
    terminals,     \* nfa_to_dfa.terminals (epsilon removed)
    state_map,     \* set of NFA states -> DFA label (k stands for "S{k}")
    reverse_map,   \* DFA label -> set of NFA states
    dfa_queue,     \* nfa_to_dfa.queue
    counter,       \* next free DFA label
    dfa_transitions, \* DFA label -> (symbol -> DFA label)
    dfa_final,     \* labels of the final DFA states
    \* ---- lab1.py
    mealy,         \* the Mealy automaton read by load_mealy
    incoming,      \* Mealy state -> outputs on the edges into it
    moore_mapping, \* <<Mealy state, output>> -> Moore state (k for "q{k}")
    new_state_counter,
    moore_transitions, \* Moore state -> (input -> Moore state)
    moore,         \* the automaton returned by convert_mealy_to_moore
    mealy_back,    \* the automaton returned by convert_moore_to_mealy
    \* ---- lab5.py
    regex,         \* the regular expression, a sequence of characters
    tokens,        \* the token list (tokenize, then insert_concat)
    postfix,       \* the postfix token list
    state_count,   \* the global counter behind new_state: "S{k}" is k
    nfa_start,
    nfa_accept,
    nfa_trans,     \* NFA state -> list of <<symbol, next>>
    alph,          \* the symbols of the NFA other than epsilon
    dfa_states,    \* set of NFA states -> DFA state
    dfa_trans,     \* DFA state -> (symbol -> DFA state)
    state_order,   \* the DFA states in the order they were expanded
    subset_final,  \* dfa_final of subset_construction
    subset_queue,  \* the queue of subset_construction
    earlier_run,   \* what an earlier compilation in this process returned
    merged         \* what merge_final_states returned

minVars == <<autom_type, states, state_output, delta, transitions, P,
             changed, passes, minimized, previous>>

eqVars == <<auto1, auto2, mapping, queue, all_inputs, equivalent, scenario>>

ndVars == <<nfa, terminals, state_map, reverse_map, dfa_queue, counter,
            dfa_transitions, dfa_final>>

cvVars == <<mealy, incoming, moore_mapping, new_state_counter,
            moore_transitions, moore, mealy_back>>

reVars == <<regex, tokens, postfix, state_count, nfa_start, nfa_accept,
            nfa_trans, alph, dfa_states, dfa_trans, state_order, subset_final,
            subset_queue, earlier_run, merged>>

vars == <<pc, minVars, eqVars, ndVars, cvVars, reVars>>

\* the variables of the tools that are not running
notMinVars == <<eqVars, ndVars, cvVars, reVars>>
notEqVars == <<minVars, ndVars, cvVars, reVars>>
notNdVars == <<minVars, eqVars, cvVars, reVars>>
notCvVars == <<minVars, eqVars, ndVars, reVars>>
notReVars == <<minVars, eqVars, ndVars, cvVars>>

-----------------------------------------------------------------------------
(* Bounds of the model *)

MaxStates == 3
MaxMealyStates == 2
MaxPartialStates == 2
MaxEqStates == 2
MaxNfaStates == 3
MaxNfaEdges == 3
MaxMealyCells == 4
MaxCvWordLen == 4
MaxLoadedMooreStates == 3
MaxRegexLen == 6
MaxRawLen == 3
MaxRegexWordLen == 4
MaxWordLen == 3

(* Input symbols and output signals used by the generated automata *)
Inputs == <<"x1", "x2">>
Outputs == {"y1", "y2"}

-----------------------------------------------------------------------------
(* Generic helpers *)

Range(f) == {f[i] : i \in DOMAIN f}

InList(x, list) == \E i \in 1..Len(list) : list[i] = x

RECURSIVE Flatten(_)
Flatten(ss) == IF ss = <<>> THEN <<>> ELSE Head(ss) \o Flatten(Tail(ss))

Iota(n) == [i \in 1..n |-> i]

RECURSIVE WordsOfLen(_, _)
WordsOfLen(A, n) ==
    IF n = 0 THEN {<<>>}
    ELSE {<<a>> \o w : a \in A, w \in WordsOfLen(A, n - 1)}

WordsUpTo(A, n) == UNION {WordsOfLen(A, k) : k \in 0..n}

InputIdx == 1..Len(Inputs)

InputWords == WordsUpTo(InputIdx, MaxWordLen)

-----------------------------------------------------------------------------
(* lab2.py : partition refinement *)

\* buckets[sig] = [s]: the bucket is replaced, not extended
SetDefaultOverwrite(buckets, key, s) ==
    IF \E i \in 1..Len(buckets) : buckets[i][1] = key
    THEN [i \in 1..Len(buckets) |->
             IF buckets[i][1] = key THEN <<key, <<s>>>> ELSE buckets[i]]
    ELSE Append(buckets, <<key, <<s>>>>)

\* buckets.setdefault(sig, []).append(s) on an insertion-ordered dict,
\* kept as a list of <<key, members>>
SetDefaultAppend(buckets, key, s) ==
    IF \E i \in 1..Len(buckets) : buckets[i][1] = key
    THEN [i \in 1..Len(buckets) |->
             IF buckets[i][1] = key
             THEN <<key, Append(buckets[i][2], s)>>
             ELSE buckets[i]]
    ELSE Append(buckets, <<key, <<s>>>>)

RECURSIVE Bucketize(_, _, _)
Bucketize(group, sig, buckets) ==
    IF group = <<>> THEN buckets
    ELSE Bucketize(Tail(group), sig,
                   SetDefaultAppend(buckets, sig[Head(group)], Head(group)))

\* mutant: the buckets come out in reverse order
BucketValuesReversed(buckets) ==
    [i \in 1..Len(buckets) |-> buckets[Len(buckets) + 1 - i][2]]

\* list(buckets.values())
BucketValues(buckets) == [i \in 1..Len(buckets) |-> buckets[i][2]]

\* for idx, g in enumerate(P): if dest in g: ... break
\* (blocks are numbered from 1 here, from 0 in the code; 0 = not found)
RECURSIVE BlockIndexFrom(_, _, _)
BlockIndexFrom(part, dest, idx) ==
    IF idx > Len(part) THEN 0
    ELSE IF InList(dest, part[idx]) THEN idx
    ELSE BlockIndexFrom(part, dest, idx + 1)

BlockIndex(part, dest) == BlockIndexFrom(part, dest, 1)

\* mutant: the destinations' blocks are left out of the signature
DestPartitionsDropped(part, dests) == <<>>

\* mutant: the signature holds the destinations, not their blocks
DestPartitionsByState(part, dests) == dests

\* dest_partitions: an index is appended only when a group holds dest
DestPartitions(part, dests) ==
    Flatten([a \in 1..Len(dests) |->
                IF BlockIndex(part, dests[a]) = 0 THEN <<>>
                ELSE <<BlockIndex(part, dests[a])>>])

MealyOutputs(trans, s) == [i \in InputIdx |-> trans[s][i][2]]

MealyDests(trans, s) == [i \in 1..Len(trans[s]) |-> trans[s][i][1]]

MooreSig(part, out, dlt, s) == <<out[s], DestPartitions(part, dlt[s])>>

MealySig(part, trans, s) ==
    <<MealyOutputs(trans, s), DestPartitions(part, MealyDests(trans, s))>>

InitialPartitionMoore(Q, out) ==
    BucketValues(Bucketize(Q, out, <<>>))

InitialPartitionMealy(sts, trans) ==
    BucketValues(Bucketize(sts, [s \in Range(sts) |-> MealyOutputs(trans, s)], <<>>))

\* the buckets of every group of P under the signature sig, group by group
GroupBuckets(part, sig) ==
    [g \in 1..Len(part) |-> BucketValues(Bucketize(part[g], sig, <<>>))]

\* changed is set by every group
RefinePassAlwaysChanged(part, sig) ==
    LET gb == GroupBuckets(part, sig)
    IN  <<Flatten(gb), \E g \in 1..Len(gb) : Len(gb[g]) >= 1>>

\* one pass of the while loop: <<new_P, changed>>
RefinePass(part, sig) ==
    LET gb == GroupBuckets(part, sig)
    IN  <<Flatten(gb), \E g \in 1..Len(gb) : Len(gb[g]) > 1>>

MooreSigs(part, Q, out, dlt) ==
    [s \in Range(Q) |-> MooreSig(part, out, dlt, s)]

MealySigs(part, sts, trans) ==
    [s \in Range(sts) |-> MealySig(part, trans, s)]

\* mapping: old state -> new name (the index i of "s{i}", from 1)
\* every state is given the first member of its group for a name
MappingToRepresentative(part) ==
    [s \in UNION {Range(part[i]) : i \in 1..Len(part)} |->
        part[CHOOSE i \in 1..Len(part) : InList(s, part[i])][1]]

Mapping(part) ==
    [s \in UNION {Range(part[i]) : i \in 1..Len(part)} |->
        CHOOSE i \in 1..Len(part) :
            /\ InList(s, part[i])
            /\ \A j \in (i + 1)..Len(part) : ~InList(s, part[j])]

\* {mapping[s]: state_output[s] for s in Q if s in mapping}: the last s wins
NewStateOutput(part, Q, out) ==
    LET m == Mapping(part)
        last(i) == CHOOSE k \in 1..Len(Q) :
                      /\ Q[k] \in DOMAIN m /\ m[Q[k]] = i
                      /\ \A l \in (k + 1)..Len(Q) :
                            ~(Q[l] \in DOMAIN m /\ m[Q[l]] = i)
    IN  [i \in {m[s] : s \in DOMAIN m \cap Range(Q)} |-> out[Q[last(i)]]]

QuotientMoore(part, Q, out, dlt) ==
    LET m == Mapping(part)
    IN  [new_states |-> Iota(Len(part)),
         new_state_output |-> NewStateOutput(part, Q, out),
         new_delta |-> [i \in 1..Len(part) |->
                          [a \in InputIdx |-> m[dlt[part[i][1]][a]]]],
         mapping |-> m,
         P |-> part]

QuotientMealy(part, trans) ==
    LET m == Mapping(part)
    IN  [new_states |-> Iota(Len(part)),
         new_transitions |-> [i \in 1..Len(part) |->
              [a \in 1..Len(trans[part[i][1]]) |->
                  <<m[trans[part[i][1]][a][1]], trans[part[i][1]][a][2]>>]],
         mapping |-> m,
         P |-> part]


-----------------------------------------------------------------------------
(* The tools that are not running *)

IdleMin ==
    /\ autom_type = "none"
    /\ states = <<>>
    /\ state_output = <<>>
    /\ delta = <<>>
    /\ transitions = <<>>
    /\ P = <<>>
    /\ changed = FALSE
    /\ passes = 0
    /\ minimized = <<>>
    /\ previous = <<>>

IdleEq ==
    /\ auto1 = <<>>
    /\ auto2 = <<>>
    /\ mapping = <<>>
    /\ queue = <<>>
    /\ all_inputs = <<>>
    /\ equivalent = "none"
    /\ scenario = <<>>

IdleNd ==
    /\ nfa = <<>>
    /\ terminals = <<>>
    /\ state_map = <<>>
    /\ reverse_map = <<>>
    /\ dfa_queue = <<>>
    /\ counter = 0
    /\ dfa_transitions = <<>>
    /\ dfa_final = {}

IdleCv ==
    /\ mealy = <<>>
    /\ incoming = <<>>
    /\ moore_mapping = <<>>
    /\ new_state_counter = 0
    /\ moore_transitions = <<>>
    /\ moore = <<>>
    /\ mealy_back = <<>>

IdleRe ==
    /\ regex = <<>>
    /\ tokens = <<>>
    /\ postfix = <<>>
    /\ state_count = 0
    /\ nfa_start = -1
    /\ nfa_accept = -1
    /\ nfa_trans = <<>>
    /\ alph = {}
    /\ dfa_states = <<>>
    /\ dfa_trans = <<>>
    /\ state_order = <<>>
    /\ subset_final = {}
    /\ subset_queue = <<>>
    /\ earlier_run = <<>>
    /\ merged = <<>>

-----------------------------------------------------------------------------
(* lab2.py : the minimizer as a state machine *)

NoResult == <<>>

\* parse_moore + build_moore_transition_function: a complete Moore table
InitMoore ==
    \E n \in 1..MaxStates :
        /\ states = Iota(n)
        /\ state_output \in [1..n -> Outputs]
        /\ delta \in [1..n -> [InputIdx -> 1..n]]
        /\ transitions = <<>>
        /\ autom_type = "moore"

\* parse_mealy: a complete Mealy table
InitMealy ==
    \E n \in 1..MaxMealyStates :
        /\ states = Iota(n)
        /\ transitions \in [1..n -> [InputIdx -> (1..n) \X Outputs]]
        /\ state_output = <<>>
        /\ delta = <<>>
        /\ autom_type = "mealy"

\* parse_mealy: a complete Mealy table with one more state, whose column
\* repeats the column of another state (a redundant state)
InitMealyRedundant ==
    \E n \in 1..MaxMealyStates :
        \E t \in [1..n -> [InputIdx -> (1..(n + 1)) \X Outputs]], r \in 1..n :
            /\ states = Iota(n + 1)
            /\ transitions = [s \in 1..(n + 1) |-> IF s = n + 1 THEN t[r] ELSE t[s]]
            /\ state_output = <<>>
            /\ delta = <<>>
            /\ autom_type = "mealy"

\* parse_moore + build_moore_transition_function: a Moore table in which a
\* cell may be empty (0 stands for the empty string, which names no state)
InitMoorePartial ==
    \E n \in 1..MaxPartialStates :
        /\ states = Iota(n)
        /\ state_output \in [1..n -> Outputs]
        /\ delta \in [1..n -> [InputIdx -> 0..n]]
        /\ transitions = <<>>
        /\ autom_type = "moore"

InitMinPartial ==
    /\ pc = "parsed"
    /\ InitMoorePartial
    /\ P = <<>>
    /\ changed = TRUE
    /\ passes = 0
    /\ minimized = NoResult
    /\ previous = NoResult
    /\ IdleEq
    /\ IdleNd
    /\ IdleCv
    /\ IdleRe

InitMin ==
    /\ pc = "parsed"
    /\ (InitMoore \/ InitMealy \/ InitMealyRedundant)
    /\ P = <<>>
    /\ changed = TRUE
    /\ passes = 0
    /\ minimized = NoResult
    /\ previous = NoResult
    /\ IdleEq
    /\ IdleNd
    /\ IdleCv
    /\ IdleRe

\* minimize_moore, lines 146-151 / minimize_mealy, lines 56-61
InitialPartition ==
    /\ pc = "parsed"
    /\ P' = IF autom_type = "moore"
            THEN InitialPartitionMoore(states, state_output)
            ELSE InitialPartitionMealy(states, transitions)
    /\ changed' = TRUE
    /\ passes' = 0
    /\ pc' = "refine"
    /\ UNCHANGED <<autom_type, states, state_output, delta, transitions,
                   minimized, previous>>
    /\ UNCHANGED notMinVars

Sigs ==
    IF autom_type = "moore"
    THEN MooreSigs(P, states, state_output, delta)
    ELSE MealySigs(P, states, transitions)

\* one iteration of "while changed:"
Refine ==
    /\ pc = "refine"
    /\ changed
    /\ P' = RefinePass(P, Sigs)[1]
    /\ changed' = RefinePass(P, Sigs)[2]
    /\ passes' = passes + 1
    /\ UNCHANGED <<pc, autom_type, states, state_output, delta, transitions,
                   minimized, previous>>
    /\ UNCHANGED notMinVars

\* mapping[delta[rep][a]] (line 185), mapping[dest] (lines 90-94): every
\* destination of a representative is a key of mapping
QuotientKeysKnown ==
    \A i \in 1..Len(P) : \A a \in InputIdx :
        IF autom_type = "moore"
        THEN delta[P[i][1]][a] \in DOMAIN Mapping(P)
        ELSE transitions[P[i][1]][a][1] \in DOMAIN Mapping(P)

\* the loop has ended: build the mapping and the quotient, return; a
\* destination that is no key of mapping raises KeyError
Quotient ==
    /\ pc = "refine"
    /\ ~changed
    /\ IF QuotientKeysKnown
       THEN /\ minimized' = IF autom_type = "moore"
                            THEN QuotientMoore(P, states, state_output, delta)
                            ELSE QuotientMealy(P, transitions)
            /\ pc' = "minimized"
       ELSE /\ minimized' = minimized
            /\ pc' = "key_error"
    /\ UNCHANGED <<autom_type, states, state_output, delta, transitions, P,
                   changed, passes, previous>>
    /\ UNCHANGED notMinVars

\* the returned automaton is given to the minimizer once more
MinimizeAgain ==
    /\ pc = "minimized"
    /\ previous = NoResult
    /\ previous' = minimized
    /\ states' = minimized.new_states
    /\ IF autom_type = "moore"
       THEN /\ state_output' = minimized.new_state_output
            /\ delta' = minimized.new_delta
            /\ UNCHANGED transitions
       ELSE /\ transitions' = minimized.new_transitions
            /\ UNCHANGED <<state_output, delta>>
    /\ minimized' = NoResult
    /\ P' = <<>>
    /\ changed' = TRUE
    /\ passes' = 0
    /\ pc' = "parsed"
    /\ UNCHANGED autom_type
    /\ UNCHANGED notMinVars

NextMin == InitialPartition \/ Refine \/ Quotient \/ MinimizeAgain

SpecMin == InitMin /\ [][NextMin]_vars

\* the minimizer on Moore tables with empty cells
SpecMinPartial == InitMinPartial /\ [][NextMin]_vars

-----------------------------------------------------------------------------
(* checkmoore.py : are_moore_automata_equivalent *)

EqSymbols == {"a", "b"}

RECURSIVE SortedList(_)
SortedList(S) ==
    IF S = {} THEN <<>>
    ELSE LET least == CHOOSE x \in S : \A y \in S : x <= y
         IN  <<least>> \o SortedList(S \ {least})

Orderings(S) ==
    {f \in [1..Cardinality(S) -> S] : \A i, j \in 1..Cardinality(S) : f[i] = f[j] => i = j}

\* auto["transitions"].get(state, {}).get(symbol, set())
Targets(auto, state, symbol) ==
    IF state \in DOMAIN auto.transitions /\ symbol \in DOMAIN auto.transitions[state]
    THEN auto.transitions[state][symbol]
    ELSE {}

outputs_equal(a1, a2, s1, s2) == a1.outputs[s1] = a2.outputs[s2]

sorted_t1(a1, state1, symbol) == SortedList(Targets(a1, state1, symbol))

\* mutant: the second list is sorted in descending order
RECURSIVE Reversed(_)
Reversed(list) == IF list = <<>> THEN <<>> ELSE Append(Reversed(Tail(list)), Head(list))

sorted_t2_descending(a2, state2, symbol) ==
    Reversed(SortedList(Targets(a2, state2, symbol)))

sorted_t2(a2, state2, symbol) == SortedList(Targets(a2, state2, symbol))

\* for tgt1, tgt2 in zip(sorted_t1, sorted_t2): ...
\* st = [mapping, queue, ok]; ok = FALSE stands for "return False"
RECURSIVE VisitTargets(_, _, _, _, _)
VisitTargets(a1, a2, st, t1, t2) ==
    IF t1 = <<>> \/ t2 = <<>> THEN st
    ELSE LET tgt1 == Head(t1)
             tgt2 == Head(t2)
         IN  IF tgt1 \in DOMAIN st.mapping
             THEN IF st.mapping[tgt1] # tgt2 \/ ~outputs_equal(a1, a2, tgt1, tgt2)
                  THEN [st EXCEPT !.ok = FALSE]
                  ELSE VisitTargets(a1, a2, st, Tail(t1), Tail(t2))
             ELSE LET mapped == [st EXCEPT !.mapping = (tgt1 :> tgt2) @@ @]
                  IN  IF ~outputs_equal(a1, a2, tgt1, tgt2)
                      THEN [mapped EXCEPT !.ok = FALSE]
                      ELSE VisitTargets(a1, a2,
                               [mapped EXCEPT !.queue = Append(@, <<tgt1, tgt2>>)],
                               Tail(t1), Tail(t2))

\* for symbol in all_inputs: ...
RECURSIVE VisitSymbols(_, _, _, _, _, _)
VisitSymbols(a1, a2, st, state1, state2, symbols) ==
    IF symbols = <<>> THEN st
    ELSE LET symbol == Head(symbols)
         IN  IF Cardinality(Targets(a1, state1, symbol))
                    # Cardinality(Targets(a2, state2, symbol))
             THEN [st EXCEPT !.ok = FALSE]
             ELSE LET after == VisitTargets(a1, a2, st,
                                   sorted_t1(a1, state1, symbol),
                                   sorted_t2(a2, state2, symbol))
                  IN  IF ~after.ok THEN after
                      ELSE VisitSymbols(a1, a2, after, state1, state2, Tail(symbols))

-----------------------------------------------------------------------------
(* checkmoore.py : the automata read by read_moore_automaton *)

\* at most one destination per state and symbol
DetCells(n) == {{}} \cup {{t} : t \in 1..n}

MooreAutomata(n, symbols, cells) ==
    {[states |-> Iota(n), outputs |-> o, transitions |-> t, inputs |-> symbols] :
        o \in [1..n -> Outputs], t \in [1..n -> [symbols -> cells]]}

IsDeterministic(auto) ==
    \A s \in DOMAIN auto.transitions :
        \A a \in DOMAIN auto.transitions[s] :
            Cardinality(auto.transitions[s][a]) <= 1

OtherOutput(o) == CHOOSE x \in Outputs : x # o

\* auto with its states renamed by pi, the columns kept in place, and the
\* output of the state named s (0: of none) changed
Renamed(auto, pi, s) ==
    LET back(q) == CHOOSE p \in Range(auto.states) : pi[p] = q
    IN  [states |-> [i \in 1..Len(auto.states) |-> pi[auto.states[i]]],
         outputs |-> [q \in {pi[p] : p \in Range(auto.states)} |->
                         IF back(q) = s THEN OtherOutput(auto.outputs[back(q)])
                         ELSE auto.outputs[back(q)]],
         transitions |-> [q \in {pi[p] : p \in Range(auto.states)} |->
                             [a \in auto.inputs |->
                                 {pi[t] : t \in auto.transitions[back(q)][a]}]],
         inputs |-> auto.inputs]

\* an automaton, possibly nondeterministic and partial, compared with itself
InitSelf ==
    \E n \in 1..MaxEqStates :
        /\ auto1 \in MooreAutomata(n, EqSymbols, SUBSET (1..n))
        /\ auto2 = auto1
        /\ scenario = [kind |-> "self"]

\* a deterministic automaton compared with a renamed copy of itself in which
\* the output of one state (or of none) is changed
InitRenamed ==
    \E n \in 1..MaxEqStates :
        \E pi \in Orderings(1..n), s \in 0..n :
            /\ auto1 \in MooreAutomata(n, EqSymbols, DetCells(n))
            /\ auto2 = Renamed(auto1, pi, s)
            /\ scenario = [kind |-> "renamed", pi |-> pi, changed |-> s]

\* two deterministic automata over one input symbol
InitPair ==
    \E n1, n2 \in 1..MaxEqStates :
        /\ auto1 \in MooreAutomata(n1, {"a"}, DetCells(n1))
        /\ auto2 \in MooreAutomata(n2, {"a"}, DetCells(n2))
        /\ scenario = [kind |-> "pair"]

InitEq ==
    /\ pc = "read"
    /\ (InitSelf \/ InitRenamed \/ InitPair)
    /\ mapping = <<>>
    /\ queue = <<>>
    /\ all_inputs = <<>>
    /\ equivalent = "none"
    /\ IdleMin
    /\ IdleNd
    /\ IdleCv
    /\ IdleRe

s1_init == auto1.states[1]
s2_init == auto2.states[1]

\* lines 74-79: the start states' outputs differ
StartOutputsDiffer ==
    /\ pc = "read"
    /\ ~outputs_equal(auto1, auto2, s1_init, s2_init)
    /\ equivalent' = FALSE
    /\ pc' = "returned"
    /\ UNCHANGED <<auto1, auto2, mapping, queue, all_inputs, scenario>>
    /\ UNCHANGED notEqVars

\* lines 82-87: the traversal starts; the set all_inputs is iterated in an
\* order that the set, not the program, decides
StartTraversal ==
    /\ pc = "read"
    /\ outputs_equal(auto1, auto2, s1_init, s2_init)
    /\ mapping' = (s1_init :> s2_init)
    /\ queue' = <<<<s1_init, s2_init>>>>
    /\ all_inputs' \in Orderings(auto1.inputs \cup auto2.inputs)
    /\ pc' = "traverse"
    /\ UNCHANGED <<auto1, auto2, equivalent, scenario>>
    /\ UNCHANGED notEqVars

\* lines 89-120: one iteration of "while queue:"
VisitPair ==
    /\ pc = "traverse"
    /\ queue # <<>>
    /\ LET after == VisitSymbols(auto1, auto2,
                        [mapping |-> mapping, queue |-> Tail(queue), ok |-> TRUE],
                        Head(queue)[1], Head(queue)[2], all_inputs)
       IN  /\ mapping' = after.mapping
           /\ queue' = after.queue
           /\ IF after.ok
              THEN UNCHANGED <<pc, equivalent>>
              ELSE equivalent' = FALSE /\ pc' = "returned"
    /\ UNCHANGED <<auto1, auto2, all_inputs, scenario>>
    /\ UNCHANGED notEqVars

\* line 121: the queue is empty
ReturnTrue ==
    /\ pc = "traverse"
    /\ queue = <<>>
    /\ equivalent' = TRUE
    /\ pc' = "returned"
    /\ UNCHANGED <<auto1, auto2, mapping, queue, all_inputs, scenario>>
    /\ UNCHANGED notEqVars

\* main, lines 123-137, run again with the two files exchanged; the first
\* answer is kept for comparison
CompareSwapped ==
    /\ pc = "returned"
    /\ scenario.kind # "swapped"
    /\ auto1' = auto2
    /\ auto2' = auto1
    /\ scenario' = [kind |-> "swapped", first |-> equivalent]
    /\ mapping' = <<>>
    /\ queue' = <<>>
    /\ all_inputs' = <<>>
    /\ equivalent' = "none"
    /\ pc' = "read"
    /\ UNCHANGED notEqVars

NextEq ==
    StartOutputsDiffer \/ StartTraversal \/ VisitPair \/ ReturnTrue \/ CompareSwapped

SpecEq == InitEq /\ [][NextEq]_vars

-----------------------------------------------------------------------------
(* lab4pc.py : epsilon_closure, epsilon_closure_set, nfa_to_dfa *)

EPSILON == "eps"

\* transitions[state].get(symbol, set())
NfaTargets(trans, state, symbol) ==
    IF symbol \in DOMAIN trans[state] THEN trans[state][symbol] ELSE {}

\* the neighbours are added to the closure but never pushed
PushNone(stack, fresh) == stack

\* lines 38-40: stack.append(neighbor) for every neighbour not in closure
PushFresh(stack, fresh) == stack \o SortedList(fresh)

\* the worklist loop of epsilon_closure: stack is a list, closure a set;
\* pushed lists every state the loop has put on the stack
RECURSIVE ClosureLoop(_, _)
ClosureLoop(trans, st) ==
    IF st.stack = <<>> THEN st
    ELSE LET current == st.stack[Len(st.stack)]
             rest == SubSeq(st.stack, 1, Len(st.stack) - 1)
             fresh == NfaTargets(trans, current, EPSILON) \ st.closure
         IN  ClosureLoop(trans,
                 [stack |-> PushFresh(rest, fresh),
                  closure |-> st.closure \cup fresh,
                  pushed |-> st.pushed \o SubSeq(PushFresh(rest, fresh), Len(rest) + 1, Len(PushFresh(rest, fresh)))])

epsilon_closure(state, trans) ==
    ClosureLoop(trans, [stack |-> <<state>>, closure |-> {state},
                        pushed |-> <<state>>]).closure

\* mutant: only the states themselves, their epsilon successors forgotten
epsilon_closure_set_shallow(sts, trans) == sts

epsilon_closure_set(sts, trans) ==
    UNION {epsilon_closure(state, trans) : state \in sts}

\* the targets of one state of current only
SymbolTargetsOfOne(trans, current, symbol) ==
    IF current = {} THEN {}
    ELSE NfaTargets(trans, CHOOSE state \in current : TRUE, symbol)

\* target |= transitions[state].get(symbol, set()) for state in current
SymbolTargets(trans, current, symbol) ==
    UNION {NfaTargets(trans, state, symbol) : state \in current}

\* the counter stays where it is
SameCounter(c) == c

\* line 79: counter += 1
NextCounter(c) == c + 1

\* the set holds final states only
AllFinal(label, final_states) == label \subseteq final_states

\* line 87: label & final_states
MeetsFinal(label, final_states) == label \cap final_states # {}

\* the body of "for symbol in terminals", applied to every symbol in turn
\* st = [state_map, reverse_map, queue, counter, row]
RECURSIVE ExpandSymbols(_, _, _, _)
ExpandSymbols(trans, st, current, symbols) ==
    IF symbols = <<>> THEN st
    ELSE LET symbol == Head(symbols)
             target_closure ==
                 epsilon_closure_set(SymbolTargets(trans, current, symbol), trans)
         IN  IF target_closure = {}
             THEN ExpandSymbols(trans, st, current, Tail(symbols))
             ELSE LET known == target_closure \in DOMAIN st.state_map
                      label == IF known THEN st.state_map[target_closure]
                               ELSE st.counter
                      st2 == IF known THEN st
                             ELSE [st EXCEPT
                                      !.state_map = (target_closure :> label) @@ @,
                                      !.reverse_map = (label :> target_closure) @@ @,
                                      !.queue = Append(@, target_closure),
                                      !.counter = NextCounter(@)]
                  IN  ExpandSymbols(trans,
                          [st2 EXCEPT !.row = (symbol :> label) @@ @],
                          current, Tail(symbols))

\* every NFA with the given states whose table holds the edges of E
NfaOf(n, E, F) ==
    [nfa_states |-> Iota(n),
     terminals |-> <<"a", "b", EPSILON>>,
     transitions |-> [s \in 1..n |-> [x \in {"a", "b", EPSILON} |->
                         {t \in 1..n : <<s, x, t>> \in E}]],
     start_state |-> 1,
     final_states |-> F]

\* the subsets of S with at most k elements
RECURSIVE SubsetsUpTo(_, _)
SubsetsUpTo(S, k) ==
    IF k = 0 THEN {{}}
    ELSE LET smaller == SubsetsUpTo(S, k - 1)
         IN  smaller \cup {E \cup {e} : E \in smaller, e \in S}

InitNd ==
    /\ pc = "nfa_read"
    /\ \E n \in 1..MaxNfaStates :
          \E E \in SubsetsUpTo((1..n) \X {"a", "b", EPSILON} \X (1..n), MaxNfaEdges),
             F \in SUBSET (1..n) :
                nfa = NfaOf(n, E, F)
    /\ terminals = <<>>
    /\ state_map = <<>>
    /\ reverse_map = <<>>
    /\ dfa_queue = <<>>
    /\ counter = 0
    /\ dfa_transitions = <<>>
    /\ dfa_final = {}
    /\ IdleMin
    /\ IdleEq
    /\ IdleCv
    /\ IdleRe

\* lines 50-62
StartNfaToDfa ==
    /\ pc = "nfa_read"
    /\ LET initial_closure == epsilon_closure(nfa.start_state, nfa.transitions)
       IN  /\ terminals' = SelectSeq(nfa.terminals, LAMBDA t : t # EPSILON)
           /\ dfa_queue' = <<initial_closure>>
           /\ state_map' = (initial_closure :> 0)
           /\ reverse_map' = (0 :> initial_closure)
    /\ counter' = 1
    /\ dfa_transitions' = <<>>
    /\ dfa_final' = {}
    /\ pc' = "subsets"
    /\ UNCHANGED nfa
    /\ UNCHANGED notNdVars

\* lines 64-84: one iteration of "while queue:"
ExpandDfaState ==
    /\ pc = "subsets"
    /\ dfa_queue # <<>>
    /\ LET current == Head(dfa_queue)
           current_label == state_map[current]
           st == ExpandSymbols(nfa.transitions,
                     [state_map |-> state_map, reverse_map |-> reverse_map,
                      queue |-> Tail(dfa_queue), counter |-> counter, row |-> <<>>],
                     current, terminals)
       IN  /\ state_map' = st.state_map
           /\ reverse_map' = st.reverse_map
           /\ dfa_queue' = st.queue
           /\ counter' = st.counter
           /\ dfa_transitions' = (current_label :> st.row) @@ dfa_transitions
    /\ UNCHANGED <<pc, nfa, terminals, dfa_final>>
    /\ UNCHANGED notNdVars

\* lines 86-90
FinishNfaToDfa ==
    /\ pc = "subsets"
    /\ dfa_queue = <<>>
    /\ dfa_final' = {fs \in DOMAIN reverse_map :
                        MeetsFinal(reverse_map[fs], nfa.final_states)}
    /\ pc' = "dfa_returned"
    /\ UNCHANGED <<nfa, terminals, state_map, reverse_map, dfa_queue, counter,
                   dfa_transitions>>
    /\ UNCHANGED notNdVars

NextNd == StartNfaToDfa \/ ExpandDfaState \/ FinishNfaToDfa

SpecNd == InitNd /\ [][NextNd]_vars

-----------------------------------------------------------------------------
(* lab1.py : convert_mealy_to_moore, convert_moore_to_mealy *)

\* the rows of the table taken from the last input symbol to the first
RawRowsReversed(state_names, input_symbols, trans) ==
    [i \in 1..Len(input_symbols) |->
        LET inp == input_symbols[Len(input_symbols) + 1 - i]
        IN  <<inp,
              [j \in 1..Len(state_names) |->
                  <<state_names[j],
                    trans[state_names[j]][inp][1],
                    trans[state_names[j]][inp][2]>>]>>]

\* load_mealy: the rows of the table, input by input, state by state
RawRows(state_names, input_symbols, trans) ==
    [i \in 1..Len(input_symbols) |->
        <<input_symbols[i],
          [j \in 1..Len(state_names) |->
              <<state_names[j],
                trans[state_names[j]][input_symbols[i]][1],
                trans[state_names[j]][input_symbols[i]][2]>>]>>]

LoadMealy(state_names, input_symbols, trans) ==
    [states |-> state_names,
     inputs |-> input_symbols,
     transitions |-> trans,
     start |-> state_names[1],
     raw |-> RawRows(state_names, input_symbols, trans)]

\* the output is recorded for the source of the transition
RECURSIVE AddIncomingBySource(_, _)
AddIncomingBySource(inc, transitions_list) ==
    IF transitions_list = <<>> THEN inc
    ELSE LET src == Head(transitions_list)[1]
             out == Head(transitions_list)[3]
         IN  AddIncomingBySource(IF InList(out, inc[src]) THEN inc
                                 ELSE [inc EXCEPT ![src] = Append(@, out)],
                                 Tail(transitions_list))

\* lines 99-101 over one row
RECURSIVE AddIncoming(_, _)
AddIncoming(inc, transitions_list) ==
    IF transitions_list = <<>> THEN inc
    ELSE LET target == Head(transitions_list)[2]
             out == Head(transitions_list)[3]
         IN  AddIncoming(IF InList(out, inc[target]) THEN inc
                         ELSE [inc EXCEPT ![target] = Append(@, out)],
                         Tail(transitions_list))

\* lines 98-101
RECURSIVE ScanRows(_, _)
ScanRows(inc, raw_rows) ==
    IF raw_rows = <<>> THEN inc
    ELSE ScanRows(AddIncoming(inc, Head(raw_rows)[2]), Tail(raw_rows))

\* lines 104-108
SeedStart(inc, m) ==
    IF inc[m.start] = <<>>
    THEN [inc EXCEPT ![m.start] = <<m.transitions[m.start][m.inputs[1]][2]>>]
    ELSE inc

\* the pairs (q, out) for q in state_names, for out in incoming[q]
IncomingPairs(state_names, inc) ==
    Flatten([i \in 1..Len(state_names) |->
                [j \in 1..Len(inc[state_names[i]]) |->
                    <<state_names[i], inc[state_names[i]][j]>>]])

\* lines 125-133 for one Moore state
\* st = [moore_mapping, new_state_counter, moore_transitions]
RECURSIVE RemapInputs(_, _, _, _, _)
RemapInputs(m, st, q, m_state, symbols) ==
    IF symbols = <<>> THEN st
    ELSE LET a == Head(symbols)
         IN  IF a \notin DOMAIN m.transitions[q]
             THEN RemapInputs(m, st, q, m_state, Tail(symbols))
             ELSE LET ry == m.transitions[q][a]
                      st2 == IF ry \in DOMAIN st.moore_mapping THEN st
                             ELSE [moore_mapping |->
                                       (ry :> st.new_state_counter) @@ st.moore_mapping,
                                   new_state_counter |-> st.new_state_counter + 1,
                                   moore_transitions |->
                                       (st.new_state_counter :> <<>>)
                                           @@ st.moore_transitions]
                  IN  RemapInputs(m,
                          [st2 EXCEPT !.moore_transitions[m_state] =
                                          (a :> st2.moore_mapping[ry]) @@ @],
                          q, m_state, Tail(symbols))

\* lines 124-133: items is list(moore_mapping.items())
RECURSIVE RemapStates(_, _, _)
RemapStates(m, st, items) ==
    IF items = <<>> THEN st
    ELSE RemapStates(m,
             RemapInputs(m, st, Head(items)[1][1], Head(items)[2], m.inputs),
             Tail(items))

\* the traversal stops after the states first put in the queue
ReachableLoopOneLevel(input_symbols, trans, bfs_queue, reachable) ==
    Range(bfs_queue)
        \cup UNION {{trans[s][a] : a \in Range(input_symbols) \cap DOMAIN trans[s]} :
                      s \in Range(bfs_queue)}

\* remove_unreachable_automaton, lines 65-76
RECURSIVE ReachableLoop(_, _, _, _)
ReachableLoop(input_symbols, trans, bfs_queue, reachable) ==
    IF bfs_queue = <<>> THEN reachable
    ELSE LET s == Head(bfs_queue)
         IN  IF s \in reachable
             THEN ReachableLoop(input_symbols, trans, Tail(bfs_queue), reachable)
             ELSE LET seen == reachable \cup {s}
                      nxt == SelectSeq(
                                 [i \in 1..Len(input_symbols) |->
                                     IF input_symbols[i] \in DOMAIN trans[s]
                                     THEN trans[s][input_symbols[i]] ELSE -1],
                                 LAMBDA t : t # -1 /\ t \notin seen)
                  IN  ReachableLoop(input_symbols, trans, Tail(bfs_queue) \o nxt, seen)

\* remove_unreachable_automaton: <<new_states, new_transitions>>
remove_unreachable_automaton(sts, input_symbols, trans, start) ==
    LET reachable == ReachableLoop(input_symbols, trans, <<start>>, {})
    IN  <<SelectSeq(sts, LAMBDA s : s \in reachable),
          [s \in reachable |-> trans[s]]>>

\* the output of the state the transition leaves
TransitionOutputOfSource(output_by_state, st, target) == output_by_state[st]

\* lines 168-169: the output a Mealy transition st -> target carries
TransitionOutput(output_by_state, st, target) == output_by_state[target]

\* convert_moore_to_mealy
convert_moore_to_mealy(mo) ==
    LET output_by_state ==
            [name \in {mo.states[i].name : i \in 1..Len(mo.states)} |->
                LET last == CHOOSE i \in 1..Len(mo.states) :
                                /\ mo.states[i].name = name
                                /\ \A j \in (i + 1)..Len(mo.states) :
                                      mo.states[j].name # name
                IN  mo.states[last].output]
        moore_trans == mo.transitions
        mealy_states == [i \in 1..Len(mo.states) |-> mo.states[i].name]
        mealy_transitions ==
            [st \in Range(mealy_states) |->
                [a \in Range(mo.inputs) \cap DOMAIN moore_trans[st] |->
                    <<moore_trans[st][a],
                      TransitionOutput(output_by_state, st, moore_trans[st][a])>>]]
        transitions_without_output ==
            [st \in Range(mealy_states) |->
                [a \in DOMAIN mealy_transitions[st] |-> mealy_transitions[st][a][1]]]
        reachable == remove_unreachable_automaton(mealy_states, mo.inputs,
                         transitions_without_output, mo.start)[1]
    IN  [states |-> reachable,
         inputs |-> mo.inputs,
         transitions |-> [st \in Range(reachable) |-> mealy_transitions[st]],
         start |-> mo.start]

\* a complete Mealy table with at most MaxMealyCells cells
InitCv ==
    /\ pc = "mealy_loaded"
    /\ \E n \in 1..MaxMealyCells, k \in 1..Len(Inputs) :
          /\ n * k <= MaxMealyCells
          /\ \E t \in [1..n -> [{Inputs[i] : i \in 1..k} -> (1..n) \X Outputs]] :
                mealy = LoadMealy(Iota(n), SubSeq(Inputs, 1, k), t)
    /\ incoming = <<>>
    /\ moore_mapping = <<>>
    /\ new_state_counter = 0
    /\ moore_transitions = <<>>
    /\ moore = <<>>
    /\ mealy_back = <<>>
    /\ IdleMin
    /\ IdleEq
    /\ IdleNd
    /\ IdleRe

\* convert_mealy_to_moore, lines 97-108
CollectIncoming ==
    /\ pc = "mealy_loaded"
    /\ incoming' = SeedStart(ScanRows([s \in Range(mealy.states) |-> <<>>], mealy.raw),
                             mealy)
    /\ pc' = "incoming"
    /\ UNCHANGED <<mealy, moore_mapping, new_state_counter, moore_transitions,
                   moore, mealy_back>>
    /\ UNCHANGED notCvVars

\* convert_mealy_to_moore, lines 111-116
NameMooreStates ==
    /\ pc = "incoming"
    /\ LET pairs == IncomingPairs(mealy.states, incoming)
       IN  /\ moore_mapping' = [p \in Range(pairs) |->
                                   (CHOOSE i \in 1..Len(pairs) :
                                       /\ pairs[i] = p
                                       /\ \A j \in (i + 1)..Len(pairs) : pairs[j] # p) - 1]
           /\ new_state_counter' = Len(pairs)
    /\ pc' = "named"
    /\ UNCHANGED <<mealy, incoming, moore_transitions, moore, mealy_back>>
    /\ UNCHANGED notCvVars

\* list(moore_mapping.items()): the pairs in the order they were inserted
MappingItems(mm) ==
    LET pairs == IncomingPairs(mealy.states, incoming)
        firsts == SelectSeq([i \in 1..Len(pairs) |->
                                IF \E j \in 1..(i - 1) : pairs[j] = pairs[i]
                                THEN <<>> ELSE <<pairs[i], mm[pairs[i]]>>],
                            LAMBDA x : x # <<>>)
    IN  firsts

\* convert_mealy_to_moore, lines 123-133
RemapTransitions ==
    /\ pc = "named"
    /\ LET st == RemapStates(mealy,
                     [moore_mapping |-> moore_mapping,
                      new_state_counter |-> new_state_counter,
                      moore_transitions |->
                          [ms \in {moore_mapping[p] : p \in DOMAIN moore_mapping} |-> <<>>]],
                     MappingItems(moore_mapping))
       IN  /\ moore_mapping' = st.moore_mapping
           /\ new_state_counter' = st.new_state_counter
           /\ moore_transitions' = st.moore_transitions
    /\ pc' = "remapped"
    /\ UNCHANGED <<mealy, incoming, moore, mealy_back>>
    /\ UNCHANGED notCvVars

\* convert_mealy_to_moore, lines 119-120 and 136-153
PruneMoore ==
    /\ pc = "remapped"
    /\ LET pairs == IncomingPairs(mealy.states, incoming)
           start_moore == moore_mapping[<<mealy.start, incoming[mealy.start][1]>>]
           moore_states == [i \in 1..Len(pairs) |->
                               [name |-> moore_mapping[pairs[i]], output |-> pairs[i][2]]]
           state_names_moore == [i \in 1..Len(pairs) |-> moore_states[i].name]
           pruned == remove_unreachable_automaton(state_names_moore, mealy.inputs,
                         moore_transitions, start_moore)
       IN  moore' = [states |-> SelectSeq(moore_states,
                                    LAMBDA st : InList(st.name, pruned[1])),
                     inputs |-> mealy.inputs,
                     transitions |-> pruned[2],
                     start |-> start_moore]
    /\ pc' = "moore_returned"
    /\ UNCHANGED <<mealy, incoming, moore_mapping, new_state_counter,
                   moore_transitions, mealy_back>>
    /\ UNCHANGED notCvVars

\* convert_moore_to_mealy applied to the Moore automaton just returned
ConvertBack ==
    /\ pc = "moore_returned"
    /\ mealy_back' = convert_moore_to_mealy(moore)
    /\ pc' = "mealy_returned"
    /\ UNCHANGED <<mealy, incoming, moore_mapping, new_state_counter,
                   moore_transitions, moore>>
    /\ UNCHANGED notCvVars

\* load_moore: states with their outputs, a complete table of targets
LoadMoore(state_names, outs, input_symbols, trans) ==
    [states |-> [i \in 1..Len(state_names) |->
                    [name |-> state_names[i], output |-> outs[i]]],
     inputs |-> input_symbols,
     transitions |-> trans,
     start |-> state_names[1]]

\* main, mode moore-to-mealy: a complete Moore table of up to
\* MaxLoadedMooreStates states
InitCvMoore ==
    /\ pc = "moore_loaded"
    /\ \E n \in 1..MaxLoadedMooreStates, k \in 1..Len(Inputs) :
          \E outs \in [1..n -> Outputs],
             t \in [1..n -> [{Inputs[i] : i \in 1..k} -> 1..n]] :
                moore = LoadMoore(Iota(n), outs, SubSeq(Inputs, 1, k), t)
    /\ mealy = <<>>
    /\ incoming = <<>>
    /\ moore_mapping = <<>>
    /\ new_state_counter = 0
    /\ moore_transitions = <<>>
    /\ mealy_back = <<>>
    /\ IdleMin
    /\ IdleEq
    /\ IdleNd
    /\ IdleRe

\* main, line 308: convert_moore_to_mealy on the Moore automaton read
ConvertLoadedMoore ==
    /\ pc = "moore_loaded"
    /\ mealy_back' = convert_moore_to_mealy(moore)
    /\ pc' = "mealy_converted"
    /\ UNCHANGED <<mealy, incoming, moore_mapping, new_state_counter,
                   moore_transitions, moore>>
    /\ UNCHANGED notCvVars

NextCv == CollectIncoming \/ NameMooreStates \/ RemapTransitions \/ PruneMoore
              \/ ConvertBack \/ ConvertLoadedMoore

InitConverter == InitCv \/ InitCvMoore

SpecCv == InitConverter /\ [][NextCv]_vars

-----------------------------------------------------------------------------
(* lab5.py : tokenize, insert_concat, to_postfix, build_nfa *)

\* tokenize, lines 24-41 (regex[i] here is regex[i-1] there)
RECURSIVE TokenizeFrom(_, _, _)
TokenizeFrom(re, i, toks) ==
    IF i > Len(re) THEN toks
    ELSE LET c == re[i]
         IN  IF c = " " THEN TokenizeFrom(re, i + 1, toks)
             ELSE IF c \in {"(", ")", "*", "+", "|"}
             THEN IF c = "(" /\ i + 1 <= Len(re) /\ re[i + 1] = ")"
                  THEN TokenizeFrom(re, i + 2, Append(toks, EPSILON))
                  ELSE TokenizeFrom(re, i + 1, Append(toks, c))
             ELSE TokenizeFrom(re, i + 1, Append(toks, c))

tokenize(re) == TokenizeFrom(re, 1, <<>>)

\* a concatenation is put before a repetition operator as well
NeedsConcatBeforeRepeat(left, right) ==
    left \notin {"|", "("} /\ right \notin {"|", ")"}

\* insert_concat, line 54
NeedsConcat(left, right) ==
    left \notin {"|", "("} /\ right \notin {"|", ")", "*", "+"}

\* insert_concat
insert_concat(toks) ==
    Flatten([i \in 1..Len(toks) |->
                IF i < Len(toks) /\ NeedsConcat(toks[i], toks[i + 1])
                THEN <<toks[i], ".">> ELSE <<toks[i]>>])

\* to_postfix, line 60: prec.get(token, 0)
PrecGet(token) ==
    IF token \in {"*", "+"} THEN 3
    ELSE IF token = "." THEN 2
    ELSE IF token = "|" THEN 1
    ELSE 0

\* to_postfix, lines 69-70 and 73-74; st = [output, stack], top of the
\* stack last
RECURSIVE PopHigher(_, _)
PopHigher(st, token) ==
    IF /\ st.stack # <<>>
       /\ st.stack[Len(st.stack)] # "("
       /\ PrecGet(st.stack[Len(st.stack)]) >= PrecGet(token)
    THEN PopHigher([output |-> Append(st.output, st.stack[Len(st.stack)]),
                    stack |-> SubSeq(st.stack, 1, Len(st.stack) - 1)], token)
    ELSE st

\* to_postfix, lines 79-80
RECURSIVE PopToParen(_)
PopToParen(st) ==
    IF st.stack # <<>> /\ st.stack[Len(st.stack)] # "("
    THEN PopToParen([output |-> Append(st.output, st.stack[Len(st.stack)]),
                     stack |-> SubSeq(st.stack, 1, Len(st.stack) - 1)])
    ELSE st

\* to_postfix, lines 83-84
RECURSIVE PopAll(_)
PopAll(st) ==
    IF st.stack # <<>>
    THEN PopAll([output |-> Append(st.output, st.stack[Len(st.stack)]),
                 stack |-> SubSeq(st.stack, 1, Len(st.stack) - 1)])
    ELSE st

\* to_postfix, lines 63-82
RECURSIVE PostfixLoop(_, _)
PostfixLoop(st, toks) ==
    IF toks = <<>> THEN st
    ELSE LET token == Head(toks)
             st2 ==
                 IF token \notin {"*", "+", ".", "|", "(", ")"}
                 THEN [st EXCEPT !.output = Append(@, token)]
                 ELSE IF token \in {"*", "+"}
                 THEN [st EXCEPT !.output = Append(@, token)]
                 ELSE IF token \in {".", "|"}
                 THEN [PopHigher(st, token) EXCEPT !.stack = Append(@, token)]
                 ELSE IF token = "("
                 THEN [st EXCEPT !.stack = Append(@, token)]
                 ELSE LET popped == PopToParen(st)
                      IN  IF popped.stack # <<>>
                          THEN [popped EXCEPT
                                   !.stack = SubSeq(@, 1, Len(@) - 1)]
                          ELSE popped
         IN  PostfixLoop(st2, Tail(toks))

to_postfix(toks) ==
    PopAll(PostfixLoop([output |-> <<>>, stack |-> <<>>], toks)).output

\* transitions[s].append(edge) on a defaultdict(list)
AppendEdge(trans, s, edge) ==
    IF s \in DOMAIN trans THEN [trans EXCEPT ![s] = Append(@, edge)]
    ELSE (s :> <<edge>>) @@ trans

\* transitions.get(state, [])
EdgesOf(trans, s) == IF s \in DOMAIN trans THEN trans[s] ELSE <<>>

\* build_nfa, lines 94-100
LiteralEdges(trans, token, s0, s1) ==
    IF token # EPSILON THEN (s0 :> <<<<token, s1>>>>) @@ trans
    ELSE AppendEdge(trans, s0, <<EPSILON, s1>>)

\* build_nfa, line 109
ConcatEdges(trans, frag1, frag2) ==
    AppendEdge(trans, frag1.accept, <<EPSILON, frag2.start>>)

\* build_nfa, lines 118-121
UnionEdges(trans, frag1, frag2, s0, s1) ==
    AppendEdge(
        AppendEdge(
            AppendEdge(
                AppendEdge(trans, s0, <<EPSILON, frag1.start>>),
                s0, <<EPSILON, frag2.start>>),
            frag1.accept, <<EPSILON, s1>>),
        frag2.accept, <<EPSILON, s1>>)

\* build_nfa, lines 129-132
StarEdges(trans, frag1, s0, s1) ==
    AppendEdge(
        AppendEdge(
            AppendEdge(
                AppendEdge(trans, s0, <<EPSILON, frag1.start>>),
                s0, <<EPSILON, s1>>),
            frag1.accept, <<EPSILON, frag1.start>>),
        frag1.accept, <<EPSILON, s1>>)

\* the edges of a plus fragment with the skip edge of the star
PlusEdgesSkippable(trans, frag1, s0, s1) == StarEdges(trans, frag1, s0, s1)

\* build_nfa, lines 140-142
PlusEdges(trans, frag1, s0, s1) ==
    AppendEdge(
        AppendEdge(
            AppendEdge(trans, s0, <<EPSILON, frag1.start>>),
            frag1.accept, <<EPSILON, frag1.start>>),
        frag1.accept, <<EPSILON, s1>>)

\* build_nfa, lines 91-144 for one token
\* st = [transitions, stack, state_count, error]
BuildToken(st, token) ==
    LET n == Len(st.stack)
        s0 == st.state_count
        s1 == st.state_count + 1
        fresh == [start |-> s0, accept |-> s1]
    IN  IF st.error THEN st
        ELSE IF token \notin {"*", "+", ".", "|"}
        THEN [st EXCEPT !.transitions = LiteralEdges(@, token, s0, s1),
                        !.stack = Append(@, fresh),
                        !.state_count = @ + 2]
        ELSE IF token \in {".", "|"} /\ n < 2
        THEN [st EXCEPT !.error = TRUE]
        ELSE IF token = "."
        THEN [st EXCEPT !.transitions = ConcatEdges(@, st.stack[n - 1], st.stack[n]),
                        !.stack = Append(SubSeq(@, 1, n - 2),
                                         [start |-> st.stack[n - 1].start,
                                          accept |-> st.stack[n].accept])]
        ELSE IF token = "|"
        THEN [st EXCEPT !.transitions =
                            UnionEdges(@, st.stack[n - 1], st.stack[n], s0, s1),
                        !.stack = Append(SubSeq(@, 1, n - 2), fresh),
                        !.state_count = @ + 2]
        ELSE IF n < 1
        THEN [st EXCEPT !.error = TRUE]
        ELSE IF token = "*"
        THEN [st EXCEPT !.transitions = StarEdges(@, st.stack[n], s0, s1),
                        !.stack = Append(SubSeq(@, 1, n - 1), fresh),
                        !.state_count = @ + 2]
        ELSE [st EXCEPT !.transitions = PlusEdges(@, st.stack[n], s0, s1),
                        !.stack = Append(SubSeq(@, 1, n - 1), fresh),
                        !.state_count = @ + 2]

RECURSIVE BuildLoop(_, _)
BuildLoop(st, toks) ==
    IF toks = <<>> THEN st
    ELSE BuildLoop(BuildToken(st, Head(toks)), Tail(toks))

\* build_nfa; error also when the stack does not hold one fragment at the end
build_nfa(toks, count) ==
    LET st == BuildLoop([transitions |-> <<>>, stack |-> <<>>,
                         state_count |-> count, error |-> FALSE], toks)
    IN  IF st.error \/ Len(st.stack) # 1
        THEN [st EXCEPT !.error = TRUE]
        ELSE st

-----------------------------------------------------------------------------
(* lab5.py : epsilon_closure, move, subset_construction *)

\* epsilon_closure, lines 156-159; st = [stack, closure, pushed], where
\* pushed lists every state that was put on the stack
RECURSIVE ClosureEdges(_, _)
ClosureEdges(st, edges) ==
    IF edges = <<>> THEN st
    ELSE LET sym == Head(edges)[1]
             nxt == Head(edges)[2]
         IN  ClosureEdges(IF sym = EPSILON /\ nxt \notin st.closure
                          THEN [stack |-> Append(st.stack, nxt),
                                closure |-> st.closure \cup {nxt},
                                pushed |-> Append(st.pushed, nxt)]
                          ELSE st,
                          Tail(edges))

\* epsilon_closure, lines 154-159
RECURSIVE ClosureWhile(_, _)
ClosureWhile(st, trans) ==
    IF st.stack = <<>> THEN st
    ELSE LET state == st.stack[Len(st.stack)]
         IN  ClosureWhile(
                 ClosureEdges([st EXCEPT !.stack = SubSeq(@, 1, Len(@) - 1)],
                              EdgesOf(trans, state)),
                 trans)

\* epsilon_closure of lab5
regex_epsilon_closure(sts, trans) ==
    ClosureWhile([stack |-> SortedList(sts), closure |-> sts,
                  pushed |-> SortedList(sts)], trans).closure

\* move
move(sts, sym, trans) ==
    {e[2] : e \in {x \in UNION {Range(EdgesOf(trans, s)) : s \in sts} : x[1] = sym}}

\* the symbols an edge can carry ("(" when it was never closed), in the
\* order of sorted(alph, key=...)
SymbolOrder == <<"(", "a", "b">>

\* sorted(alph, key=lambda x: (0 if x[0].isdigit() else 1, x))
SortedAlph(symbols) == SelectSeq(SymbolOrder, LAMBDA x : x \in symbols)

\* subset_construction, lines 197-199
SubsetTarget(current, sym, trans) ==
    UNION {regex_epsilon_closure(move({state}, sym, trans), trans) : state \in current}

\* subset_construction, lines 195-208
\* st = [dfa_states, dfa_final, queue, state_count, row]
RECURSIVE SubsetSymbols(_, _, _, _, _)
SubsetSymbols(st, current, symbols, trans, accept) ==
    IF symbols = <<>> THEN st
    ELSE LET sym == Head(symbols)
             nxt == SubsetTarget(current, sym, trans)
         IN  IF nxt = {} THEN SubsetSymbols(st, current, Tail(symbols), trans, accept)
             ELSE LET st2 ==
                          IF nxt \in DOMAIN st.dfa_states THEN st
                          ELSE [st EXCEPT
                                   !.dfa_states = (nxt :> st.state_count) @@ @,
                                   !.state_count = @ + 1,
                                   !.dfa_final = IF accept \in nxt
                                                 THEN @ \cup {st.state_count} ELSE @,
                                   !.queue = Append(@, nxt)]
                  IN  SubsetSymbols(
                          [st2 EXCEPT !.row = (sym :> st2.dfa_states[nxt]) @@ @],
                          current, Tail(symbols), trans, accept)

-----------------------------------------------------------------------------
(* lab5.py : the well-formed regular expressions and what they denote *)

RegexLiterals == {"a", "b"}
RegexChars == RegexLiterals \cup {"(", ")", "|", "*", "+", "."}

\* languages are cut at MaxRegexWordLen
LangCat(L1, L2) ==
    {w \in {u \o v : u \in L1, v \in L2} : Len(w) <= MaxRegexWordLen}

RECURSIVE LangStarFrom(_, _)
LangStarFrom(acc, L) ==
    LET more == acc \cup LangCat(acc, L)
    IN  IF more = acc THEN acc ELSE LangStarFrom(more, L)

LangStar(L) == LangStarFrom({<<>>}, L)

LangPlus(L) == LangCat(L, LangStar(L))

\* the expressions of exactly n characters, by syntactic category, each
\* with its language: atoms (a literal, (), a parenthesised expression),
\* repetitions, concatenations, unions
RegexLevel(n, prev) ==
    LET atoms ==
            IF n = 1 THEN {<<<<c>>, {<<c>>}>> : c \in RegexLiterals}
            ELSE IF n = 2 THEN {<<<<"(", ")">>, {<<>>}>>}
            ELSE {<<<<"(">> \o e[1] \o <<")">>, e[2]>> : e \in prev[n - 2].unions}
        repetitions ==
            atoms \cup
            (IF n = 1 THEN {}
             ELSE {<<p[1] \o <<"*">>, LangStar(p[2])>> : p \in prev[n - 1].repetitions}
                  \cup
                  {<<p[1] \o <<"+">>, LangPlus(p[2])>> : p \in prev[n - 1].repetitions})
        concatenations ==
            repetitions \cup
            UNION {{<<c[1] \o p[1], LangCat(c[2], p[2])>> :
                        c \in prev[i].concatenations, p \in prev[n - i].repetitions} :
                   i \in 1..(n - 1)}
        unions ==
            concatenations \cup
            UNION {{<<e[1] \o <<"|">> \o c[1], e[2] \cup c[2]>> :
                        e \in prev[i].unions, c \in prev[n - 1 - i].concatenations} :
                   i \in 1..(n - 2)}
    IN  [repetitions |-> repetitions, concatenations |-> concatenations,
         unions |-> unions]

RECURSIVE RegexLevels(_)
RegexLevels(n) ==
    IF n = 0 THEN <<>>
    ELSE LET prev == RegexLevels(n - 1)
         IN  Append(prev, RegexLevel(n, prev))

RegexTable ==
    LET levels == RegexLevels(MaxRegexLen)
    IN  UNION {levels[n].unions : n \in 1..MaxRegexLen}

WellFormedRegexes == {p[1] : p \in RegexTable}

Language(re) == (CHOOSE p \in RegexTable : p[1] = re)[2]

-----------------------------------------------------------------------------
(* lab5.py : main as a state machine *)

\* main, line 274: a well-formed expression of up to MaxRegexLen
\* characters, or any string of up to MaxRawLen characters
InitRe ==
    /\ pc = "regex_read"
    /\ regex \in WellFormedRegexes \cup
                 UNION {[1..n -> RegexChars] : n \in 0..MaxRawLen}
    /\ tokens = <<>>
    /\ postfix = <<>>
    /\ state_count = 0
    /\ nfa_start = -1
    /\ nfa_accept = -1
    /\ nfa_trans = <<>>
    /\ alph = {}
    /\ dfa_states = <<>>
    /\ dfa_trans = <<>>
    /\ state_order = <<>>
    /\ subset_final = {}
    /\ subset_queue = <<>>
    /\ earlier_run = NoResult
    /\ merged = NoResult
    /\ IdleMin
    /\ IdleEq
    /\ IdleNd
    /\ IdleCv

\* main, line 277
Tokenize ==
    /\ pc = "regex_read"
    /\ tokens' = tokenize(regex)
    /\ pc' = "tokenized"
    /\ UNCHANGED <<merged, earlier_run, regex, postfix, state_count, nfa_start, nfa_accept, nfa_trans,
                   alph, dfa_states, dfa_trans, state_order, subset_final,
                   subset_queue>>
    /\ UNCHANGED notReVars

\* main, line 278
InsertConcat ==
    /\ pc = "tokenized"
    /\ tokens' = insert_concat(tokens)
    /\ pc' = "concatenated"
    /\ UNCHANGED <<merged, earlier_run, regex, postfix, state_count, nfa_start, nfa_accept, nfa_trans,
                   alph, dfa_states, dfa_trans, state_order, subset_final,
                   subset_queue>>
    /\ UNCHANGED notReVars

\* main, line 279
ToPostfix ==
    /\ pc = "concatenated"
    /\ postfix' = to_postfix(tokens)
    /\ pc' = "postfix"
    /\ UNCHANGED <<merged, earlier_run, regex, tokens, state_count, nfa_start, nfa_accept, nfa_trans,
                   alph, dfa_states, dfa_trans, state_order, subset_final,
                   subset_queue>>
    /\ UNCHANGED notReVars

\* main, line 281: build_nfa returns, or raises and ends the program
BuildNfa ==
    /\ pc = "postfix"
    /\ LET st == build_nfa(postfix, state_count)
       IN  /\ state_count' = st.state_count
           /\ IF st.error
              THEN /\ pc' = "build_error"
                   /\ UNCHANGED <<nfa_start, nfa_accept, nfa_trans>>
              ELSE /\ pc' = "nfa_built"
                   /\ nfa_start' = st.stack[1].start
                   /\ nfa_accept' = st.stack[1].accept
                   /\ nfa_trans' = st.transitions
    /\ UNCHANGED <<merged, earlier_run, regex, tokens, postfix, alph, dfa_states, dfa_trans,
                   state_order, subset_final, subset_queue>>
    /\ UNCHANGED notReVars

\* subset_construction, lines 174-189
StartSubsets ==
    /\ pc = "nfa_built"
    /\ alph' = {e[1] : e \in UNION {Range(nfa_trans[s]) : s \in DOMAIN nfa_trans}}
                   \ {EPSILON}
    /\ LET start_set == regex_epsilon_closure({nfa_start}, nfa_trans)
       IN  /\ dfa_states' = (start_set :> state_count)
           /\ subset_final' = IF nfa_accept \in start_set THEN {state_count} ELSE {}
           /\ subset_queue' = <<start_set>>
    /\ state_count' = state_count + 1
    /\ dfa_trans' = <<>>
    /\ state_order' = <<>>
    /\ pc' = "subset_loop"
    /\ UNCHANGED <<merged, earlier_run, regex, tokens, postfix, nfa_start, nfa_accept, nfa_trans>>
    /\ UNCHANGED notReVars

\* subset_construction, lines 190-208: one turn of the while loop
ExpandSubset ==
    /\ pc = "subset_loop"
    /\ subset_queue # <<>>
    /\ LET current == Head(subset_queue)
           current_id == dfa_states[current]
           st == SubsetSymbols([dfa_states |-> dfa_states,
                                dfa_final |-> subset_final,
                                queue |-> Tail(subset_queue),
                                state_count |-> state_count,
                                row |-> <<>>],
                               current, SortedAlph(alph), nfa_trans, nfa_accept)
       IN  /\ state_order' = Append(state_order, current_id)
           /\ dfa_trans' = (current_id :> st.row) @@ dfa_trans
           /\ dfa_states' = st.dfa_states
           /\ subset_final' = st.dfa_final
           /\ subset_queue' = st.queue
           /\ state_count' = st.state_count
    /\ pc' = "subset_loop"
    /\ UNCHANGED <<merged, earlier_run, regex, tokens, postfix, nfa_start, nfa_accept, nfa_trans, alph>>
    /\ UNCHANGED notReVars

\* subset_construction, line 209
ReturnDfa ==
    /\ pc = "subset_loop"
    /\ subset_queue = <<>>
    /\ pc' = "dfa_built"
    /\ UNCHANGED reVars
    /\ UNCHANGED notReVars

\* what build_nfa and subset_construction have returned
Returned ==
    [nfa_start |-> nfa_start, nfa_accept |-> nfa_accept, nfa_trans |-> nfa_trans,
     dfa_trans |-> dfa_trans, state_order |-> state_order,
     dfa_final |-> subset_final]

\* build_nfa and subset_construction are run once more in the same process
\* on the same postfix form: state_count is a global of the module (line 7)
\* and keeps its value
CompileAgain ==
    /\ pc = "dfa_built"
    /\ earlier_run = NoResult
    /\ earlier_run' = Returned
    /\ pc' = "postfix"
    /\ UNCHANGED <<regex, tokens, postfix, state_count, nfa_start, nfa_accept,
                   nfa_trans, alph, dfa_states, dfa_trans, state_order,
                   subset_final, subset_queue, merged>>
    /\ UNCHANGED notReVars

\* merge_final_states, line 218: merged_final = "H", a name no DFA state has
merged_final == -1

\* merge_final_states: <<new_trans, new_order>>
merge_final_states(trans, order, final) ==
    IF final = {} THEN <<trans, order>>
    ELSE LET new_order == Append(SelectSeq(order, LAMBDA q : q \notin final),
                                 merged_final)
             new_trans ==
                 [q \in (DOMAIN trans \ final) \cup {merged_final} |->
                     IF q = merged_final THEN <<>>
                     ELSE [sym \in DOMAIN trans[q] |->
                              IF trans[q][sym] \in final THEN merged_final
                              ELSE trans[q][sym]]]
         IN  <<new_trans, new_order>>

\* main, line 285
MergeFinalStates ==
    /\ pc = "dfa_built"
    /\ merged' = [dfa_trans |-> merge_final_states(dfa_trans, state_order, subset_final)[1],
                  state_order |-> merge_final_states(dfa_trans, state_order, subset_final)[2]]
    /\ pc' = "merged"
    /\ UNCHANGED <<regex, tokens, postfix, state_count, nfa_start, nfa_accept,
                   nfa_trans, alph, dfa_states, dfa_trans, state_order,
                   subset_final, subset_queue, earlier_run>>
    /\ UNCHANGED notReVars

NextRe == Tokenize \/ InsertConcat \/ ToPostfix \/ BuildNfa \/ StartSubsets
              \/ ExpandSubset \/ ReturnDfa \/ CompileAgain \/ MergeFinalStates

SpecRe == InitRe /\ [][NextRe]_vars

-----------------------------------------------------------------------------
(* lab4pc.py and lab5.py : either determinizer *)

InitDet == InitNd \/ InitRe

NextDet == NextNd \/ NextRe

SpecDet == InitDet /\ [][NextDet]_vars

-----------------------------------------------------------------------------
(* Observable behaviour of Moore and Mealy automata *)

\* outputs of the states a Moore automaton passes through on word w from s
RECURSIVE MooreRun(_, _, _, _)
MooreRun(out, dlt, s, w) ==
    IF w = <<>> THEN <<out[s]>>
    ELSE <<out[s]>> \o MooreRun(out, dlt, dlt[s][Head(w)], Tail(w))

\* outputs a Mealy automaton emits on word w from s
RECURSIVE MealyRun(_, _, _)
MealyRun(trans, s, w) ==
    IF w = <<>> THEN <<>>
    ELSE <<trans[s][Head(w)][2]>> \o MealyRun(trans, trans[s][Head(w)][1], Tail(w))

\* behaviour of the automaton given to the minimizer, from state s
InputRun(s, w) ==
    IF autom_type = "moore" THEN MooreRun(state_output, delta, s, w)
    ELSE MealyRun(transitions, s, w)

\* behaviour of the automaton the minimizer returned, from state s
MinimizedRun(s, w) ==
    IF autom_type = "moore"
    THEN MooreRun(minimized.new_state_output, minimized.new_delta, s, w)
    ELSE MealyRun(minimized.new_transitions, s, w)

\* successors of a state of the returned automaton
MinimizedSucc(s) ==
    IF autom_type = "moore"
    THEN {minimized.new_delta[s][a] : a \in InputIdx}
    ELSE {minimized.new_transitions[s][a][1] : a \in InputIdx}

RECURSIVE ReachableSet(_, _, _)
ReachableSet(seen, Succ(_), n) ==
    LET more == seen \cup UNION {Succ(s) : s \in seen}
    IN  IF more = seen \/ n = 0 THEN seen ELSE ReachableSet(more, Succ, n - 1)

IsBijection(f, A, B) ==
    /\ DOMAIN f = A
    /\ {f[a] : a \in A} = B
    /\ \A a, b \in A : f[a] = f[b] => a = b

-----------------------------------------------------------------------------
(* C3: the minimized automaton, started at the state the mapping assigns   *)
(* to the original start state, produces on every input word the output    *)
(* sequence the original automaton produces from its start state.          *)
MinimizationPreservesBehaviour ==
    pc = "minimized" =>
        \A w \in InputWords :
            MinimizedRun(minimized.mapping[states[1]], w) = InputRun(states[1], w)

\* a 3-state Moore automaton has been minimized to 2 states
MinimizationMergedWitness ==
    /\ pc = "minimized"
    /\ autom_type = "moore"
    /\ previous = NoResult
    /\ Len(states) = 3
    /\ Len(minimized.new_states) = 2

(* C4: two states share a block of the final partition exactly when they   *)
(* produce the same outputs on every input word, and no two distinct       *)
(* states of the minimized automaton behave alike.                         *)
PartitionIsCoarsest ==
    pc = "minimized" =>
        /\ \A p, q \in Range(states) :
              (minimized.mapping[p] = minimized.mapping[q])
                  <=> (\A w \in InputWords : InputRun(p, w) = InputRun(q, w))
        /\ \A i, j \in Range(minimized.new_states) :
              i # j => \E w \in InputWords : MinimizedRun(i, w) # MinimizedRun(j, w)

\* a 3-state Mealy automaton with a redundant state has become 2 states
RedundantMealyWitness ==
    /\ pc = "minimized"
    /\ autom_type = "mealy"
    /\ previous = NoResult
    /\ Len(states) = 3
    /\ transitions[3] = transitions[2]
    /\ Len(minimized.new_states) = 2

(* C5: minimizing the returned automaton again gives an automaton with the *)
(* same number of states, equal to the first result under the renaming     *)
(* given by the second mapping, which maps start to start.                 *)
MinimizationIdempotent ==
    (pc = "minimized" /\ previous # NoResult) =>
        LET m == minimized.mapping
        IN  /\ Len(minimized.new_states) = Len(states)
            /\ IsBijection(m, Range(states), Range(minimized.new_states))
            /\ m[states[1]] = minimized.new_states[1]
            /\ \A s \in Range(states), a \in InputIdx :
                  IF autom_type = "moore"
                  THEN /\ minimized.new_state_output[m[s]] = state_output[s]
                       /\ minimized.new_delta[m[s]][a] = m[delta[s][a]]
                  ELSE minimized.new_transitions[m[s]][a]
                          = <<m[transitions[s][a][1]], transitions[s][a][2]>>

\* a result with several states has been minimized a second time
SecondMinimizationWitness ==
    /\ pc = "minimized"
    /\ previous # NoResult
    /\ Len(states) = 3
    /\ Len(previous.mapping) = 3

(* C10: every state of the returned automaton is reachable from the state  *)
(* that represents the original start state.                               *)
MinimizedAllReachable ==
    pc = "minimized" =>
        ReachableSet({minimized.mapping[states[1]]}, MinimizedSucc, MaxStates + 1)
            = Range(minimized.new_states)


-----------------------------------------------------------------------------
(* Isomorphism of Moore automata *)

StartCorrespondence(a1, a2, f) ==
    /\ IsBijection(f, Range(a1.states), Range(a2.states))
    /\ f[a1.states[1]] = a2.states[1]
    /\ \A s \in Range(a1.states) :
          /\ a1.outputs[s] = a2.outputs[f[s]]
          /\ \A a \in a1.inputs \cup a2.inputs :
                Targets(a2, f[s], a) = {f[t] : t \in Targets(a1, s, a)}

Isomorphic(a1, a2) ==
    \E f \in [Range(a1.states) -> Range(a2.states)] : StartCorrespondence(a1, a2, f)

\* states of auto reachable from its first state
ReachableStates(auto) ==
    LET Succ(s) == UNION {Targets(auto, s, a) : a \in auto.inputs}
    IN  ReachableSet({auto.states[1]}, Succ, Len(auto.states))

(* C7: on deterministic Moore automata the checker returns True exactly    *)
(* when a bijection between the state sets exists that matches the start   *)
(* states, the outputs and the transitions on every input symbol.          *)
EquivalenceDecidesIsomorphism ==
    (pc = "returned" /\ IsDeterministic(auto1) /\ IsDeterministic(auto2)) =>
        (equivalent <=> Isomorphic(auto1, auto2))

(* C8: an automaton with at least one state, deterministic or not,         *)
(* complete or partial, is reported equivalent to itself.                  *)
EquivalenceReflexive ==
    (pc = "returned" /\ auto2 = auto1) => equivalent = TRUE

\* the checker has returned for a partial, nondeterministic automaton
\* compared with itself
ReflexiveNondeterministicWitness ==
    /\ pc = "returned"
    /\ auto2 = auto1
    /\ scenario.kind = "self"
    /\ ~IsDeterministic(auto1)
    /\ \E s \in Range(auto1.states), a \in auto1.inputs : Targets(auto1, s, a) = {}
    /\ Cardinality(DOMAIN mapping) = 2
    /\ equivalent = TRUE

(* C9: a renamed copy of a deterministic automaton is reported equivalent, *)
(* and a renamed copy in which the output of any one state is changed is   *)
(* reported inequivalent.                                                  *)
OutputChangeOfAnyStateDetected ==
    (pc = "returned" /\ scenario.kind = "renamed") =>
        (equivalent <=> scenario.changed = 0)


-----------------------------------------------------------------------------
(* Languages of the NFA given to nfa_to_dfa and of the DFA it returns *)

\* states reachable from S by epsilon edges alone
EpsilonReach(trans, S) ==
    LET Succ(s) == NfaTargets(trans, s, EPSILON)
    IN  ReachableSet(S, Succ, Cardinality(DOMAIN trans))

\* states in which a run of the NFA on w from a state of S can end
RECURSIVE NfaRuns(_, _, _)
NfaRuns(trans, S, w) ==
    IF w = <<>> THEN EpsilonReach(trans, S)
    ELSE NfaRuns(trans,
             UNION {NfaTargets(trans, s, Head(w)) : s \in EpsilonReach(trans, S)},
             Tail(w))

NfaAccepts(w) ==
    NfaRuns(nfa.transitions, {nfa.start_state}, w) \cap nfa.final_states # {}

\* the run of the returned DFA on w from label: the label reached, or -1
\* when a needed transition is absent
RECURSIVE DfaRun(_, _, _)
DfaRun(trans, label, w) ==
    IF w = <<>> THEN label
    ELSE IF label \in DOMAIN trans /\ Head(w) \in DOMAIN trans[label]
         THEN DfaRun(trans, trans[label][Head(w)], Tail(w))
         ELSE -1

DfaAccepts(w) == DfaRun(dfa_transitions, state_map[epsilon_closure(nfa.start_state, nfa.transitions)], w) \in dfa_final

TerminalWords == WordsUpTo({"a", "b"}, MaxWordLen)

(* C2: the DFA returned by nfa_to_dfa accepts a word over the non-epsilon  *)
(* terminals exactly when the NFA has a run on it, with epsilon moves      *)
(* interleaved freely, from the start state to a final state.              *)
DfaEquivalentToNfa ==
    pc = "dfa_returned" =>
        \A w \in TerminalWords : DfaAccepts(w) <=> NfaAccepts(w)

\* an NFA with an epsilon cycle through two states and with two final states
\* has been determinized, and the DFA accepts some word and rejects another
EpsilonCycleDeterminizedWitness ==
    /\ pc = "dfa_returned"
    /\ \E s, t \in Range(nfa.nfa_states) :
          /\ s # t
          /\ t \in nfa.transitions[s][EPSILON]
          /\ s \in nfa.transitions[t][EPSILON]
    /\ Cardinality(nfa.final_states) = 2
    /\ \E w \in TerminalWords : DfaAccepts(w)
    /\ \E w \in TerminalWords : ~DfaAccepts(w)

-----------------------------------------------------------------------------
(* lab1.py : the round trip Mealy -> Moore -> Mealy *)

CvWords == WordsUpTo(Range(mealy.inputs), MaxCvWordLen)

\* C6: once convert_moore_to_mealy(convert_mealy_to_moore(M)) has returned
\* for a complete Mealy machine M, the returned machine run from its start
\* state emits on every input string the output sequence M emits from its
\* start state.
RoundTripPreservesOutputs ==
    pc = "mealy_returned" =>
        \A w \in CvWords :
            MealyRun(mealy_back.transitions, mealy_back.start, w)
                = MealyRun(mealy.transitions, mealy.start, w)

\* the round trip has returned for a machine whose start state has no
\* incoming edge, one of whose states was split in two Moore states, and
\* one of whose states was pruned as unreachable
RoundTripSplitWitness ==
    /\ pc = "mealy_returned"
    /\ \A s \in Range(mealy.states), a \in Range(mealy.inputs) :
          mealy.transitions[s][a][1] # mealy.start
    /\ \E s \in Range(mealy.states) : Len(incoming[s]) = 2
    /\ Len(mealy_back.states) > Len(mealy.states) - 1
    /\ \E s \in Range(mealy.states) :
          \A p \in DOMAIN moore_mapping :
              p[1] = s => ~InList(moore_mapping[p], mealy_back.states)
    /\ \E w \in CvWords : Len(w) >= 2 /\
          Range(MealyRun(mealy.transitions, mealy.start, w)) = Outputs

-----------------------------------------------------------------------------
(* lab5.py : the determinized automaton against the expression *)

\* running the DFA of subset_construction on w from state s: reject as
\* soon as a transition is absent, accept in a state of dfa_final
RECURSIVE SubsetDfaRun(_, _)
SubsetDfaRun(s, w) ==
    IF w = <<>> THEN s \in subset_final
    ELSE IF Head(w) \in DOMAIN dfa_trans[s]
    THEN SubsetDfaRun(dfa_trans[s][Head(w)], Tail(w))
    ELSE FALSE

SubsetDfaAccepts(w) == SubsetDfaRun(state_order[1], w)

\* the words over the literal symbols of the expression
RegexWords == WordsUpTo(Range(regex) \cap RegexLiterals, MaxRegexWordLen)

\* C1: for every well-formed regex and every word w over its literal
\* symbols, the DFA returned by subset_construction, run from the first
\* state of state_order, accepts w exactly when w is in the language the
\* regex denotes; a*b accepts b, ab, aab and rejects the empty word, a, ba;
\* (a|b)+ accepts a, ab, bba and rejects the empty word.
CompilationSound ==
    (pc = "dfa_built" /\ regex \in WellFormedRegexes) =>
        /\ \A w \in RegexWords : SubsetDfaAccepts(w) <=> w \in Language(regex)
        /\ regex = <<"a", "*", "b">> =>
              /\ \A w \in {<<"b">>, <<"a", "b">>, <<"a", "a", "b">>} :
                    SubsetDfaAccepts(w)
              /\ \A w \in {<<>>, <<"a">>, <<"b", "a">>} : ~SubsetDfaAccepts(w)
        /\ regex = <<"(", "a", "|", "b", ")", "+">> =>
              /\ \A w \in {<<"a">>, <<"a", "b">>, <<"b", "b", "a">>} :
                    SubsetDfaAccepts(w)
              /\ ~SubsetDfaAccepts(<<>>)

\* the DFA of (a|b)+ has been returned: it accepts bba and rejects the
\* empty word
PlusOfUnionCompiledWitness ==
    /\ pc = "dfa_built"
    /\ regex = <<"(", "a", "|", "b", ")", "+">>
    /\ SubsetDfaAccepts(<<"b", "b", "a">>)
    /\ ~SubsetDfaAccepts(<<>>)
    /\ Len(state_order) >= 2

-----------------------------------------------------------------------------
(* lab5.py : malformed expressions *)

\* build_nfa has returned an automaton
NfaReturned == pc \in {"nfa_built", "subset_loop", "dfa_built", "merged"}

\* the number of "(" minus the number of ")" among the first k characters
ParenDepth(re, k) ==
    Cardinality({i \in 1..k : re[i] = "("}) - Cardinality({i \in 1..k : re[i] = ")"})

\* some ")" has no matching "(", or some "(" has no matching ")"
Unbalanced(re) ==
    \/ \E k \in 1..Len(re) : ParenDepth(re, k) < 0
    \/ ParenDepth(re, Len(re)) # 0

\* C11: for a regex with unbalanced parentheses the pipeline tokenize,
\* insert_concat, to_postfix, build_nfa ends in an error: build_nfa never
\* returns an automaton for it.
UnbalancedRegexRejected == Unbalanced(regex) => ~NfaReturned

\* in the token list of the regex, a union, a concatenation or a
\* repetition lacks an operand, or there is no token at all
MissingOperand(toks) ==
    \/ toks = <<>>
    \/ \E i \in 1..Len(toks) :
          \/ /\ toks[i] \in {"|", "."}
             /\ \/ i = 1
                \/ i = Len(toks)
                \/ toks[i - 1] \in {"(", "|", "."}
                \/ toks[i + 1] \in {")", "|", ".", "*", "+"}
          \/ /\ toks[i] \in {"*", "+"}
             /\ (i = 1 \/ toks[i - 1] \in {"(", "|", "."})

\* C12: for a regex whose token list has an operator with a missing
\* operand, build_nfa ends in an error and returns no automaton.
MissingOperandRejected == MissingOperand(tokenize(regex)) => ~NfaReturned

\* C13: when build_nfa and subset_construction have run a second time in
\* the same process on the same regex, they return what they returned the
\* first time, with the same state identifiers.
CompilationLeavesNothingBehind ==
    (pc = "dfa_built" /\ earlier_run # NoResult) => Returned = earlier_run

-----------------------------------------------------------------------------
(* lab2.py : the refinement loop *)

\* the while loop has stopped
LoopStopped ==
    \/ pc = "refine" /\ ~changed
    \/ pc \in {"minimized", "key_error"}

\* C14: the refinement loop of minimize_moore / minimize_mealy makes at
\* most n passes over the partition of an automaton with n states, the
\* last pass (in which no block splits) included, and when it has stopped
\* the partition is stable: one more pass splits no block.
RefinementWithinBound ==
    /\ pc \in {"refine", "minimized"} => passes <= Len(states)
    /\ LoopStopped =>
          /\ passes >= 1
          /\ RefinePass(P, Sigs)[1] = P
          /\ ~RefinePass(P, Sigs)[2]

\* the loop has stopped after a pass that split a block and a last pass
\* that split none
TwoPassesWitness ==
    /\ pc = "minimized"
    /\ passes = 2
    /\ Len(states) = 3
    /\ Len(P) = 3

\* the blocks of part are non-empty, pairwise disjoint, without repeated
\* members, and cover exactly the states of sts
IsPartitionOf(part, sts) ==
    /\ \A i \in 1..Len(part) : part[i] # <<>>
    /\ \A i \in 1..Len(part) : \A k, l \in 1..Len(part[i]) :
          k # l => part[i][k] # part[i][l]
    /\ \A i, j \in 1..Len(part) : i # j => Range(part[i]) \cap Range(part[j]) = {}
    /\ UNION {Range(part[i]) : i \in 1..Len(part)} = Range(sts)

\* C15: at the start of minimization (the initial partition) and after
\* every refinement pass, the blocks of P are non-empty, pairwise disjoint
\* and their union is the state set of the input automaton.
PartitionInvariant ==
    pc \in {"refine", "minimized"} => IsPartitionOf(P, states)

\* a refinement pass has run over a partition of three states in two
\* blocks, one of them holding two states
TwoBlocksWitness ==
    /\ pc = "refine"
    /\ passes = 1
    /\ Len(states) = 3
    /\ Len(P) = 2
    /\ \E i \in 1..Len(P) : Len(P[i]) = 2
    /\ IsPartitionOf(P, states)

\* C17: when the refinement loop of minimize_moore has stopped, two states
\* of one block have the same output and, on each input symbol, either
\* both have no move or both move into the same block; also for tables
\* with empty cells.
SymbolAlignedStability ==
    (LoopStopped /\ autom_type = "moore") =>
        \A i \in 1..Len(P) : \A s, t \in Range(P[i]) :
            /\ state_output[s] = state_output[t]
            /\ \A a \in InputIdx :
                  \/ delta[s][a] = 0 /\ delta[t][a] = 0
                  \/ /\ delta[s][a] # 0
                     /\ delta[t][a] # 0
                     /\ BlockIndex(P, delta[s][a]) = BlockIndex(P, delta[t][a])

-----------------------------------------------------------------------------
(* lab4pc.py and lab5.py : the determinized automaton *)

IsInjective(f) == \A x, y \in DOMAIN f : x # y => f[x] # f[y]

\* C16: in the result of nfa_to_dfa and in the result of
\* subset_construction, every transition recorded for a DFA state is on a
\* terminal symbol and leads to one state, which is a state of the result,
\* and state names and sets of NFA states correspond one to one: two
\* names never denote the same set.
DeterminizedIsDeterministic ==
    /\ pc = "dfa_returned" =>
          /\ DOMAIN dfa_transitions = Range(state_map)
          /\ \A label \in DOMAIN dfa_transitions :
                /\ DOMAIN dfa_transitions[label] \subseteq Range(terminals)
                /\ \A symbol \in DOMAIN dfa_transitions[label] :
                      dfa_transitions[label][symbol] \in Range(state_map)
          /\ IsInjective(state_map)
          /\ IsInjective(reverse_map)
          /\ \A Q \in DOMAIN state_map : reverse_map[state_map[Q]] = Q
    /\ pc = "dfa_built" =>
          /\ DOMAIN dfa_trans = Range(dfa_states)
          /\ Range(state_order) = Range(dfa_states)
          /\ Len(state_order) = Cardinality(DOMAIN dfa_states)
          /\ \A id \in DOMAIN dfa_trans :
                /\ DOMAIN dfa_trans[id] \subseteq alph
                /\ \A sym \in DOMAIN dfa_trans[id] :
                      dfa_trans[id][sym] \in Range(dfa_states)
          /\ IsInjective(dfa_states)

\* nfa_to_dfa has returned three DFA states for an NFA in which a state
\* has two destinations on one symbol
NondeterministicInputWitness ==
    /\ pc = "dfa_returned"
    /\ Cardinality(DOMAIN state_map) >= 3
    /\ \E s \in DOMAIN nfa.transitions :
          Cardinality(nfa.transitions[s]["a"]) = 2

\* the states reachable from S by zero or more epsilon edges of the
\* edge lists of lab5
RegexEpsilonReach(trans, S) ==
    LET Succ(s) == {e[2] : e \in {x \in Range(EdgesOf(trans, s)) : x[1] = EPSILON}}
    IN  ReachableSet(S, Succ, state_count)

\* the NFA destinations of the states of Q on sym, in the edge lists of lab5
RegexTargets(trans, Q, sym) ==
    UNION {{e[2] : e \in {x \in Range(EdgesOf(trans, s)) : x[1] = sym}} : s \in Q}

\* the set of NFA states the DFA state id of lab5 stands for
SubsetOf(id) == CHOOSE Q \in DOMAIN dfa_states : dfa_states[Q] = id

\* the DFA states reachable from start along the rows of trans
DfaReachable(trans, start) ==
    LET Succ(s) == IF s \in DOMAIN trans
                   THEN {trans[s][x] : x \in DOMAIN trans[s]} ELSE {}
    IN  ReachableSet({start}, Succ, Cardinality(DOMAIN trans))

\* C18: in nfa_to_dfa and in subset_construction, the destination recorded
\* for an expanded DFA state Q on symbol a stands for the epsilon-closure of
\* the union of the NFA destinations of the states of Q on a; when that set
\* is empty nothing is recorded for (Q, a); no DFA state stands for the
\* empty set, and every DFA state of the result is reachable from the DFA
\* start.
SubsetStepExact ==
    /\ pc \in {"subsets", "dfa_returned"} =>
          /\ \A label \in DOMAIN dfa_transitions : \A symbol \in Range(terminals) :
                LET T == EpsilonReach(nfa.transitions,
                             UNION {NfaTargets(nfa.transitions, s, symbol) :
                                        s \in reverse_map[label]})
                IN  IF T = {} THEN symbol \notin DOMAIN dfa_transitions[label]
                    ELSE /\ symbol \in DOMAIN dfa_transitions[label]
                         /\ reverse_map[dfa_transitions[label][symbol]] = T
          /\ \A label \in DOMAIN reverse_map : reverse_map[label] # {}
          /\ pc = "dfa_returned" =>
                DfaReachable(dfa_transitions, 0) = DOMAIN reverse_map
    /\ pc \in {"subset_loop", "dfa_built"} =>
          /\ \A id \in DOMAIN dfa_trans : \A sym \in alph :
                LET T == RegexEpsilonReach(nfa_trans,
                             RegexTargets(nfa_trans, SubsetOf(id), sym))
                IN  IF T = {} THEN sym \notin DOMAIN dfa_trans[id]
                    ELSE /\ sym \in DOMAIN dfa_trans[id]
                         /\ SubsetOf(dfa_trans[id][sym]) = T
          /\ {} \notin DOMAIN dfa_states
          /\ pc = "dfa_built" =>
                DfaReachable(dfa_trans, state_order[1]) = Range(dfa_states)

\* subset_construction has returned three or more DFA states for a
\* well-formed regex, one of which has no transition on a symbol of the
\* alphabet
NoSinkWitness ==
    /\ pc = "dfa_built"
    /\ regex \in WellFormedRegexes
    /\ Len(state_order) >= 3
    /\ \E id \in DOMAIN dfa_trans : \E sym \in alph : sym \notin DOMAIN dfa_trans[id]
    /\ \E id \in DOMAIN dfa_trans : Cardinality(SubsetOf(id)) >= 2

\* C19: in the result of nfa_to_dfa a label is in the returned final set
\* exactly when the set of NFA states it stands for meets the NFA's final
\* states; the start state of the DFA stands for the epsilon-closure of the
\* NFA start state and has the first label, S0.
FinalityByIntersection ==
    pc = "dfa_returned" =>
        /\ dfa_final \subseteq Range(state_map)
        /\ \A Q \in DOMAIN state_map :
              state_map[Q] \in dfa_final <=> Q \cap nfa.final_states # {}
        /\ EpsilonReach(nfa.transitions, {nfa.start_state}) \in DOMAIN state_map
        /\ state_map[EpsilonReach(nfa.transitions, {nfa.start_state})] = 0

\* nfa_to_dfa has returned a final DFA state that holds a final and a
\* non-final NFA state, and a DFA state that is not final; the start state
\* stands for more than the NFA start state
MixedFinalWitness ==
    /\ pc = "dfa_returned"
    /\ \E Q \in DOMAIN state_map :
          /\ state_map[Q] \in dfa_final
          /\ Q \ nfa.final_states # {}
    /\ \E Q \in DOMAIN state_map : state_map[Q] \notin dfa_final
    /\ Cardinality(reverse_map[0]) >= 2

NoDuplicates(list) ==
    \A i, j \in 1..Len(list) : i # j => list[i] # list[j]

\* the NFA states of lab5's automaton
RegexNfaStates ==
    DOMAIN nfa_trans \cup {nfa_accept}
        \cup {e[2] : e \in UNION {Range(nfa_trans[s]) : s \in DOMAIN nfa_trans}}

\* C20: epsilon_closure and epsilon_closure_set of lab4pc and
\* epsilon_closure of lab5 return, for a set S of states, exactly the
\* states reachable from S by zero or more epsilon edges, the smallest
\* superset of S closed under them; the worklist loop ends also on epsilon
\* cycles and puts no state on the stack twice.
EpsilonClosureExact ==
    /\ pc \in {"nfa_read", "subsets", "dfa_returned"} =>
          /\ \A S \in SUBSET DOMAIN nfa.transitions :
                epsilon_closure_set(S, nfa.transitions)
                    = EpsilonReach(nfa.transitions, S)
          /\ \A s \in DOMAIN nfa.transitions :
                LET run == ClosureLoop(nfa.transitions,
                               [stack |-> <<s>>, closure |-> {s}, pushed |-> <<s>>])
                IN  /\ epsilon_closure(s, nfa.transitions)
                           = EpsilonReach(nfa.transitions, {s})
                    /\ run.stack = <<>>
                    /\ Range(run.pushed) = run.closure
                    /\ NoDuplicates(run.pushed)
    /\ pc = "nfa_built" =>
          \A S \in SubsetsUpTo(RegexNfaStates, 2) :
              LET run == ClosureWhile([stack |-> SortedList(S), closure |-> S,
                                       pushed |-> SortedList(S)], nfa_trans)
              IN  /\ regex_epsilon_closure(S, nfa_trans)
                         = RegexEpsilonReach(nfa_trans, S)
                  /\ run.stack = <<>>
                  /\ Range(run.pushed) = run.closure
                  /\ NoDuplicates(run.pushed)

\* nfa_to_dfa has taken the closure of the start state of an NFA whose
\* start state lies on an epsilon cycle through another state, with a
\* third state behind it
EpsilonCycleClosureWitness ==
    /\ pc = "subsets"
    /\ dfa_transitions = <<>>
    /\ Len(nfa.nfa_states) = 3
    /\ 2 \in nfa.transitions[1][EPSILON]
    /\ 1 \in nfa.transitions[2][EPSILON]
    /\ 3 \in nfa.transitions[2][EPSILON]
    /\ reverse_map[0] = {1, 2, 3}

-----------------------------------------------------------------------------
(* lab1.py : the Moore automaton built from a Mealy automaton *)

\* some transition of the Mealy automaton targets q
HasIncoming(q) ==
    \E s \in Range(mealy.states), a \in Range(mealy.inputs) :
        mealy.transitions[s][a][1] = q

\* the pairs (q, o) such that a transition targets q with output o, and
\* the pair seeded for a start state without incoming transition
ProducedPairs ==
    {mealy.transitions[s][a] : s \in Range(mealy.states), a \in Range(mealy.inputs)}
        \cup (IF HasIncoming(mealy.start) THEN {}
              ELSE {<<mealy.start,
                      mealy.transitions[mealy.start][mealy.inputs[1]][2]>>})

MooreNames(mo) == {mo.states[i].name : i \in 1..Len(mo.states)}

\* C21: before pruning, convert_mealy_to_moore has one Moore state for
\* each produced pair (q, o) and for the seeded start pair and no other,
\* distinct pairs have distinct names, the transition of the state of
\* (q, o) on a is the state of the pair (target, output) of q's Mealy
\* transition on a; a returned Moore state of (q, o) has output o, and
\* every transition target of the returned automaton is a listed state.
MooreStatesArePairs ==
    /\ pc \in {"named", "remapped", "moore_returned"} =>
          /\ DOMAIN moore_mapping = ProducedPairs
          /\ IsInjective(moore_mapping)
    /\ pc \in {"remapped", "moore_returned"} =>
          /\ DOMAIN moore_transitions = Range(moore_mapping)
          /\ \A p \in DOMAIN moore_mapping : \A a \in Range(mealy.inputs) :
                /\ a \in DOMAIN moore_transitions[moore_mapping[p]]
                /\ moore_transitions[moore_mapping[p]][a]
                       = moore_mapping[mealy.transitions[p[1]][a]]
    /\ pc = "moore_returned" =>
          /\ \A i \in 1..Len(moore.states) :
                \E p \in DOMAIN moore_mapping :
                    /\ moore_mapping[p] = moore.states[i].name
                    /\ moore.states[i].output = p[2]
          /\ \A s \in DOMAIN moore.transitions : \A a \in DOMAIN moore.transitions[s] :
                moore.transitions[s][a] \in MooreNames(moore)

\* the transitions have been remapped for a Mealy automaton with a state
\* entered with two outputs and a start state that no transition enters
SplitAndSeededWitness ==
    /\ pc = "remapped"
    /\ ~HasIncoming(mealy.start)
    /\ \E q \in Range(mealy.states) : Len(incoming[q]) = 2
    /\ Cardinality(DOMAIN moore_mapping) >= 3

\* the cells (input index, state index) whose transition enters the start
StartEntries ==
    {c \in (1..Len(mealy.inputs)) \X (1..Len(mealy.states)) :
        mealy.transitions[mealy.states[c[2]]][mealy.inputs[c[1]]][1] = mealy.start}

\* the first such cell, reading the table row by row and state by state
FirstStartEntry ==
    CHOOSE c \in StartEntries :
        \A d \in StartEntries : c[1] < d[1] \/ (c[1] = d[1] /\ c[2] <= d[2])

FirstStartOutput ==
    IF StartEntries = {}
    THEN mealy.transitions[mealy.start][mealy.inputs[1]][2]
    ELSE mealy.transitions[mealy.states[FirstStartEntry[2]]]
                          [mealy.inputs[FirstStartEntry[1]]][2]

\* C22: the start state of the returned Moore automaton is the Moore copy
\* of the pair (Mealy start, first output found on a transition into the
\* start when the table is read row by row and state by state), and of
\* the output of the start's transition on the first input symbol when no
\* transition enters the start.
MooreStartIsFirstDiscovered ==
    pc = "moore_returned" =>
        /\ <<mealy.start, FirstStartOutput>> \in DOMAIN moore_mapping
        /\ moore.start = moore_mapping[<<mealy.start, FirstStartOutput>>]

\* the start is entered with two outputs, the later row's output is the
\* one of the first listed state, and the start copy is not the first name
StartEnteredTwiceWitness ==
    /\ pc = "moore_returned"
    /\ Len(incoming[mealy.start]) = 2
    /\ Len(mealy.inputs) = 2
    /\ FirstStartEntry[2] > 1
    /\ \E d \in StartEntries : d[1] = 2 /\ d[2] = 1
    /\ moore.start # moore_mapping[<<mealy.start,
                          mealy.transitions[mealy.states[1]][mealy.inputs[2]][2]>>]

\* no transition enters the start state
StartNeverEnteredWitness ==
    /\ pc = "moore_returned"
    /\ StartEntries = {}
    /\ Len(mealy.states) >= 2

\* the states a transition table reaches from start, start included
TableReachable(trans, start) ==
    LET Succ(s) == {trans[s][a] : a \in DOMAIN trans[s]}
    IN  ReachableSet({start}, Succ, Cardinality(DOMAIN trans))

\* C23: pruning in both converters. The Moore automaton returned by
\* convert_mealy_to_moore lists exactly the states its start state reaches
\* in the table built before pruning, and the Mealy automaton returned by
\* convert_moore_to_mealy lists exactly the states the Moore start reaches
\* in the Moore table; no state is listed twice, the returned table has an
\* entry for exactly the listed states, and the traversal returns on
\* tables with cycles.
PruningKeepsExactlyReachable ==
    /\ pc = "moore_returned" =>
          /\ MooreNames(moore) = TableReachable(moore_transitions, moore.start)
          /\ MooreNames(moore) = TableReachable(moore.transitions, moore.start)
          /\ DOMAIN moore.transitions = MooreNames(moore)
          /\ \A i, j \in 1..Len(moore.states) :
                moore.states[i].name = moore.states[j].name => i = j
    /\ pc \in {"mealy_returned", "mealy_converted"} =>
          /\ Range(mealy_back.states) = TableReachable(moore.transitions, moore.start)
          /\ DOMAIN mealy_back.transitions = Range(mealy_back.states)
          /\ NoDuplicates(mealy_back.states)
          /\ \A s \in DOMAIN mealy_back.transitions :
                \A a \in DOMAIN mealy_back.transitions[s] :
                    mealy_back.transitions[s][a][1] \in Range(mealy_back.states)

\* a loaded Moore automaton of three states whose start lies on a cycle
\* through a second state at distance two, the third state unreachable
PrunedCyclicMooreWitness ==
    /\ pc = "mealy_converted"
    /\ Len(moore.states) = 3
    /\ Len(mealy_back.states) = 2
    /\ \A a \in Range(moore.inputs) : moore.transitions[moore.start][a] = moore.start
                                         \/ moore.transitions[moore.start][a] = 2
    /\ \E a \in Range(moore.inputs) : moore.transitions[2][a] = moore.start
    /\ \E a \in Range(moore.inputs) : moore.transitions[moore.start][a] = 2

\* a Moore copy built from the Mealy automaton is unreachable and removed
PrunedMooreCopyWitness ==
    /\ pc = "moore_returned"
    /\ Len(moore.states) < Cardinality(DOMAIN moore_mapping)

\* the output of the Moore state named t
MooreOutputOf(mo, t) ==
    mo.states[CHOOSE i \in 1..Len(mo.states) : mo.states[i].name = t].output

-----------------------------------------------------------------------------
(* checkmoore.py : the mapping and the order of the arguments *)

\* C25: the mapping kept by are_moore_automata_equivalent is injective in
\* every state of the traversal and when the function returns: two states
\* of the first automaton are never mapped to one state of the second.
MappingStaysInjective ==
    pc \in {"traverse", "returned"} => IsInjective(mapping)

\* C30: on deterministic Moore automata the answer of
\* are_moore_automata_equivalent does not depend on the order of its
\* arguments: the run with the automata exchanged returns what the first
\* run returned.
EquivalenceSymmetric ==
    (/\ pc = "returned"
     /\ scenario.kind = "swapped"
     /\ IsDeterministic(auto1)
     /\ IsDeterministic(auto2)) => equivalent = scenario.first

-----------------------------------------------------------------------------
(* lab2.py : the quotient automaton and its start state *)

\* the block of the final partition that holds s
BlockOf(s) == CHOOSE i \in 1..Len(P) : InList(s, P[i])

\* C26: the result of minimize_moore / minimize_mealy has one state per
\* block of the final partition, named in block order (s0 is 1, s1 is 2,
\* ...); the transitions of the state of block i are those of the first
\* member of block i with every destination replaced by the name of the
\* destination's block; its output (Moore) or the outputs on its
\* transitions (Mealy) are those of that first member; and every state of
\* the input is mapped to the name of the one block that holds it.
QuotientFromRepresentatives ==
    pc = "minimized" =>
        /\ minimized.P = P
        /\ minimized.new_states = Iota(Len(P))
        /\ DOMAIN minimized.mapping = Range(states)
        /\ \A s \in Range(states) :
              /\ minimized.mapping[s] \in 1..Len(P)
              /\ InList(s, P[minimized.mapping[s]])
              /\ \A j \in 1..Len(P) : InList(s, P[j]) => j = minimized.mapping[s]
        /\ autom_type = "moore" =>
              /\ DOMAIN minimized.new_delta = 1..Len(P)
              /\ DOMAIN minimized.new_state_output = 1..Len(P)
              /\ \A i \in 1..Len(P) :
                    /\ minimized.new_state_output[i] = state_output[P[i][1]]
                    /\ minimized.new_delta[i]
                           = [a \in InputIdx |-> BlockOf(delta[P[i][1]][a])]
        /\ autom_type = "mealy" =>
              /\ DOMAIN minimized.new_transitions = 1..Len(P)
              /\ \A i \in 1..Len(P) :
                    minimized.new_transitions[i]
                        = [a \in InputIdx |->
                              <<BlockOf(transitions[P[i][1]][a][1]),
                                transitions[P[i][1]][a][2]>>]

\* a Moore automaton of three states is reduced to two, and the first
\* member of a block moves to a state that is not the first of its block
QuotientRetargetedWitness ==
    /\ pc = "minimized"
    /\ autom_type = "moore"
    /\ Len(states) = 3
    /\ Len(P) = 2
    /\ \E i \in 1..Len(P), a \in InputIdx :
          /\ delta[P[i][1]][a] # P[BlockOf(delta[P[i][1]][a])][1]
          /\ BlockOf(delta[P[i][1]][a]) # delta[P[i][1]][a]

\* C28: the start state stays in block 0: after the initial partition and
\* after every refinement pass the first member of the first block of P is
\* the first listed state of the input, and in the result that state is
\* mapped to the first new state, whose block it heads.
StartStaysFirst ==
    /\ pc \in {"refine", "minimized"} => P[1][1] = states[1]
    /\ pc = "minimized" =>
          /\ minimized.mapping[states[1]] = minimized.new_states[1]
          /\ minimized.P[1][1] = states[1]

\* the block of the start state has been split by a refinement pass and
\* the start state shares its block with no other state
StartBlockSplitWitness ==
    /\ pc = "refine"
    /\ passes >= 1
    /\ changed
    /\ Len(P) = 3
    /\ Len(P[1]) = 1
    /\ state_output # <<>>
    /\ state_output[1] = state_output[2]

-----------------------------------------------------------------------------
(* lab5.py : the explicit concatenation token *)

\* a token that tokenize produces for a character that is no operator
IsLiteralToken(t) == t \notin {"(", ")", "*", "+", "|", EPSILON}

\* the pairs of adjacent tokens between which a concatenation belongs
Concatenable(A, B) ==
    /\ IsLiteralToken(A) \/ A \in {EPSILON, ")", "*", "+"}
    /\ IsLiteralToken(B) \/ B \in {EPSILON, "("}

\* how many concatenation tokens belong before the i-th token of toks
InsertedBefore(toks, i) ==
    Cardinality({j \in 1..(i - 1) : Concatenable(toks[j], toks[j + 1])})

\* C27: insert_concat puts the token "." between adjacent tokens A, B
\* exactly when A is a literal, the epsilon literal, ")", "*" or "+" and B
\* is a literal, the epsilon literal or "("; so never before "|", ")", "*"
\* or "+" and never after "|" or "("; the original tokens keep their
\* order, and nothing else is added.
ConcatInsertedExactly ==
    pc = "concatenated" =>
        LET orig == tokenize(regex)
        IN  /\ Len(tokens) = Len(orig) + InsertedBefore(orig, Len(orig))
            /\ \A i \in 1..Len(orig) :
                  /\ tokens[i + InsertedBefore(orig, i)] = orig[i]
                  /\ (i < Len(orig) /\ Concatenable(orig[i], orig[i + 1])) =>
                        tokens[i + InsertedBefore(orig, i) + 1] = "."
                  /\ (i < Len(orig) /\ (orig[i] \in {"|", "("}
                                          \/ orig[i + 1] \in {"|", ")", "*", "+"})) =>
                        InsertedBefore(orig, i + 1) = InsertedBefore(orig, i)

\* a repetition followed by a literal and an epsilon literal after another
\* token: two concatenations inserted, none before the repetition
ConcatAfterRepeatWitness ==
    /\ pc = "concatenated"
    /\ regex \in WellFormedRegexes
    /\ LET orig == tokenize(regex)
       IN  /\ \E i \in 1..(Len(orig) - 2) :
                 /\ IsLiteralToken(orig[i])
                 /\ orig[i + 1] \in {"*", "+"}
                 /\ IsLiteralToken(orig[i + 2])
                 /\ tokens[i + InsertedBefore(orig, i) + 1] = orig[i + 1]
           /\ \E j \in 2..Len(orig) : orig[j] = EPSILON
           /\ Len(tokens) >= Len(orig) + 2

-----------------------------------------------------------------------------
(* lab5.py : the table after merge_final_states *)

\* the merged automaton on word w from state s, accepting in "H"
RECURSIVE MergedRun(_, _)
MergedRun(s, w) ==
    IF w = <<>> THEN s = merged_final
    ELSE IF s \in DOMAIN merged.dfa_trans /\ Head(w) \in DOMAIN merged.dfa_trans[s]
    THEN MergedRun(merged.dfa_trans[s][Head(w)], Tail(w))
    ELSE FALSE

\* the run starts in the original start state, which is "H" if it was final
MergedAccepts(w) ==
    MergedRun(IF state_order[1] \in subset_final THEN merged_final
              ELSE state_order[1], w)

\* C29: for every well-formed regex and every word w over its literal
\* symbols, the automaton returned by merge_final_states, run from the
\* original start state and accepting in "H", accepts w exactly when the
\* DFA returned by subset_construction accepts w.
MergePreservesLanguage ==
    (pc = "merged" /\ regex \in WellFormedRegexes) =>
        \A w \in RegexWords : MergedAccepts(w) <=> SubsetDfaAccepts(w)

=============================================================================
